---- MODULE Spec2Model ----
(***************************************************************************)
(* Model of the Meta sync engine of Meta-Dashboard-Backend:                *)
(*   - MetaSyncOrchestrator.run() and its stage pipeline                   *)
(*     (Dashboard/services/meta_sync_orchestrator.py), started by          *)
(*     _run_sync_in_background (Dashboard/api_views.py);                   *)
(*   - MetaGraphClient.request_with_retry, paginate, batch_request         *)
(*     (Dashboard/services/meta_client.py).                                *)
(*                                                                         *)
(* Spec         : one run() on an existing pending SyncRun.                *)
(* SpecRetry    : one request_with_retry call, attempt by attempt.         *)
(* SpecClient   : successive request_with_retry calls on one client.       *)
(* SpecPaginate : one paginate listing, page by page.                      *)
(* SpecBatch    : one batch_request, chunk by chunk.                       *)
(* In SpecPaginate and SpecBatch request_with_retry is one step that       *)
(* returns a payload or raises MetaClientError.                            *)
(*                                                                         *)
(* SyncLog.objects.create may raise on any write (at most MaxLogFailures   *)
(* times per behaviour).  SyncRun.objects.get and SyncRun.save are taken   *)
(* to succeed: the run exists and its status row can be written.           *)
(***************************************************************************)
EXTENDS Integers, Sequences, FiniteSets, TLC

\* ------------------------------------------------------------------ bounds
MaxLogFailures == 2     \* SyncLog writes that raise in one behaviour
MaxRequests == 2        \* TransportClient calls issued by the stages of one run
MaxRetriesBound == 5    \* largest max_retries a client is constructed with
MaxCalls == 2           \* request_with_retry calls made on one client
MaxPages == 3           \* pages the provider serves for one listing
MaxBatchCalls == 3      \* calls handed to one batch_request

\* -------------------------------------------------------- SyncRun.Status
PENDING == "pending"
RUNNING == "running"
SUCCESS == "success"
FAILED == "failed"
Status == {PENDING, RUNNING, SUCCESS, FAILED}

\* ------------------------------------------------------------ scope values
SCOPE_ALL == "all"
SCOPE_META == "meta"
SCOPE_INSTAGRAM == "instagram"
VALID_SCOPES == {SCOPE_ALL, SCOPE_META, SCOPE_INSTAGRAM}

\* Scope arguments a caller may pass to the constructor ("" stands for a
\* falsy argument such as None).
ScopeArgs == {"", "all", "meta", "instagram", " Meta ", "pages"}

\* self.sync_scope = str(sync_scope or SCOPE_ALL).strip().lower()
NormalizeScope(arg) ==
    CASE arg = "" -> SCOPE_ALL
      [] arg = " Meta " -> "meta"
      [] OTHER -> arg

\* ------------------------------------------------------------------ stages
\* The advertising block with two _run_stage calls exchanged.
Mut_MetaStagesReordered ==
    << "sync_ad_accounts", "sync_adsets", "sync_campaigns", "sync_ads",
       "sync_ad_insights" >>

MetaStages ==
    << "sync_ad_accounts", "sync_campaigns", "sync_adsets", "sync_ads",
       "sync_ad_insights" >>

InstagramStages ==
    << "sync_facebook_pages", "sync_instagram_accounts_and_insights",
       "sync_media_and_insights" >>

\* The two if-blocks of run(): the _run_stage calls made for a scope, in order.
StagePlan(scope) ==
    (IF scope \in {SCOPE_ALL, SCOPE_META} THEN MetaStages ELSE << >>)
    \o (IF scope \in {SCOPE_ALL, SCOPE_INSTAGRAM} THEN InstagramStages ELSE << >>)

\* Stages with a client call inside a try/except MetaClientError.
GuardedCallStages ==
    {"sync_ad_insights", "sync_instagram_accounts_and_insights"}

\* Stages with a client call outside any try/except.
UnguardedCallStages ==
    {"sync_ad_accounts", "sync_campaigns", "sync_adsets", "sync_ads",
     "sync_facebook_pages", "sync_instagram_accounts_and_insights",
     "sync_media_and_insights"}

VARIABLES
    \* ---- MetaSyncOrchestrator.run()
    pc,               \* position of the worker thread
    sync_scope,       \* self.sync_scope
    token_valid,      \* DashboardUser.has_valid_long_token()
    user_exists,      \* DashboardUser.objects.get finds the user
    sync_run,         \* self.sync_run: "None" or "loaded"
    client,           \* self.client is constructed
    status,           \* SyncRun.status of the stored row
    finished_at,      \* SyncRun.finished_at is set
    status_writes,    \* history: the statuses saved, in order
    stage_idx,        \* index in StagePlan of the stage being run (0: none)
    started,          \* history: stages whose function was called, in order
    returned,         \* history: stages whose function returned, in order
    requests,         \* TransportClient calls issued by the stages
    caught,           \* client errors caught inside a stage
    exc,              \* where the exception being handled was raised
    propagating,      \* an exception is leaving run()
    \* ---- SyncLog
    log,              \* rows of SyncLog for the run, in id order
    log_failures,     \* SyncLog writes that raised
    \* ---- MetaGraphClient.request_with_retry
    rq_pc,            \* position inside request_with_retry
    has_sync_run,     \* the client is bound to a SyncRun
    max_retries,      \* self.max_retries
    request_pause_ms, \* self.request_pause_seconds, in milliseconds
    attempt,          \* loop variable of request_with_retry
    response,         \* outcome of the last session.request
    http_attempts,    \* history: session.request calls of the current call
    sleeps,           \* history: time.sleep calls of the current call
    rq_result,        \* how the current call ended
    rq_done,          \* history: the call has returned or raised
    url,              \* url of the current call, as a sequence of pieces
    calls,            \* history: request_with_retry calls entered
    timeline,         \* history: 2xx responses and pacing sleeps of the client
    \* ---- MetaGraphClient.paginate
    pg_pc,            \* position inside paginate
    pg_params,        \* the params argument
    page_limit,       \* the page_limit argument: {} for None, else {n}
    current_path_or_url,
    current_params,
    page,
    payload,          \* payload of the page being processed
    yielded,          \* history: the items yielded to the consumer, in order
    pg_requests,      \* history: the request_with_retry calls made, in order
    pg_responses,     \* history: the payloads request_with_retry returned
    \* ---- MetaGraphClient.batch_request
    bt_pc,            \* position inside batch_request
    batch_size,       \* self.batch_size
    bt_calls,         \* the calls argument
    bt_size,          \* size
    bt_start,         \* start of the current chunk (0-based)
    aggregated_results,
    bt_output,        \* the list handed to the caller by return
    bt_posts,         \* history: the chunks POSTed, in order
    bt_payloads,      \* history: payload lists returned for the chunks
    bt_answers,       \* history: << call, raw item the provider answered >>
    \* ---- MetaSyncOrchestrator._normalize_metrics
    mx_pc,            \* position: "idle", "input" or "done"
    mx_row,           \* the provider insight row handed to _normalize_metrics
    mx_metric,        \* the dict _normalize_metrics returned
    \* ---- MetaSyncOrchestrator.sync_ad_insights
    in_pc,            \* position inside sync_ad_insights
    in_source,        \* the daily ad rows the provider holds
    in_chunks,        \* the windows of the call, from _iter_month_chunks
    in_chunk,         \* index of the window being processed
    in_rows,          \* the rows the provider lists for the window
    in_pos,           \* rows of the window already yielded by paginate
    ad_insights,      \* table AdInsightDaily, in insertion order
    adset_insights,   \* table AdSetInsightDaily
    campaign_insights, \* table CampaignInsightDaily
    adset_agg,        \* accumulators per (ad set, date), in insertion order
    campaign_agg,     \* accumulators per (campaign, date)
    rows_seen,
    ad_upserts,
    insight_errors,
    in_calls,         \* history: calls of sync_ad_insights entered
    in_processed,     \* history: rows upserted at ad level by the call
    in_failed,        \* history: windows whose listing raised in the call
    in_fetched,       \* history: windows whose listing was started
    in_before,        \* history: the three tables when the call was entered
    in_prev,          \* history: windows of the previous call, and whether
                      \* it returned without a failed listing
    \* ---- MetaSyncOrchestrator.sync_campaigns / sync_adsets / sync_ads
    en_pc,            \* position inside the stage function
    en_stage,         \* which of the three stage functions runs
    en_accounts,      \* the user's ad accounts, in query order
    en_parents,       \* keys of campaign_map / adset_map, read at the start
    en_pending,       \* pending of _iter_batch_paginated_requests
    en_chunk,         \* zip(current_chunk, results) of the current round
    en_pos,           \* index in en_chunk of the pair being handled
    en_rows,          \* rows of the current result not yet visited
    en_cur,           \* history: what was done with the current result
    en_store,         \* the table the stage writes, one row per id
    en_total,         \* total
    en_skipped,       \* skipped
    en_errors,        \* errors
    en_done,          \* history: the results handled, in order
    en_issued,        \* history: calls handed to batch_request
    en_batch_size,    \* the batch_size argument of the helper
    en_rounds,        \* history: the chunks handed to batch_request
    en_enq,           \* history: the follow-up requests appended to
                      \* pending, each with the queue it was appended to
    \* ---- MetaSyncOrchestrator._iter_month_chunks
    ch_pc,            \* position: "idle", "input" or "done"
    ch_since,         \* the since argument, a day number
    ch_until,         \* the until argument, a day number
    ch_chunks,        \* the windows yielded, in order
    \* ---- MetaSyncOrchestrator._fetch_instagram_account_insights
    ig_pc,            \* position inside the function
    ig_today,         \* timezone.localdate(), a day number
    ig_since,         \* the since argument
    ig_until,         \* the until argument
    ig_provider,      \* how the provider answers each kind of request
    effective_since,  \* effective_since
    date_windows,     \* date_windows
    ig_window,        \* index in date_windows of the window being requested
    ig_group,         \* index of the metric group being requested
    metric_entries,   \* keys of metric_entries
    ig_missing,       \* the missing metrics still to be retried one by one
    metric_error,     \* metric_error is not None
    ig_requests,      \* history: the request_with_retry calls, in order
    ig_result,        \* keys of the data returned; "none" before the return
    \* ---- meta_sync_logs
    sl_rows,          \* the SyncLog table: rows [id, sync_run, entidade]
    sl_next_id,       \* the next id the SyncLog table hands out
    sl_status,        \* SyncRun.status of the polled run; "none" before _start_sync
    pl_since_id,      \* the consumer's cursor, sent as since_id
    pl_received,      \* history: the ids the consumer has received, in order
    pl_response,      \* the last response: since_id and limit used, ids returned
    \* ---- two concurrent sync_ad_insights calls
    tw_source,        \* the rows the provider lists, the same for both runs
    tw_pc,            \* per run: position inside sync_ad_insights
    tw_pos,           \* per run: rows of the listing consumed
    tw_adset_agg,     \* per run: adset_agg, a local of the call
    tw_campaign_agg,  \* per run: campaign_agg, a local of the call
    tw_done,          \* per run: accumulator entries already written as rows
    tw_ad_insights,   \* AdInsightDaily, shared by the runs
    tw_adset_insights,\* AdSetInsightDaily, shared by the runs
    tw_campaign_insights,   \* CampaignInsightDaily, shared by the runs
    tw_overlap,     \* history: a run took a step while the other was under way
    \* ---- entity stages of a run beside another user's rows
    ow_pc,            \* the stage the run of U is in
    ow_pos,           \* items of the stage's listing already handled
    ow_account_items, \* what me/adaccounts lists for U
    ow_adset_items,   \* what the ad accounts of U list as ad sets
    ow_page_items,    \* what me/accounts lists for U
    ow_accounts,      \* AdAccount rows
    ow_adsets,        \* AdSet rows
    ow_pages,         \* FacebookPage rows
    ow_campaign_map   \* campaign_map of sync_adsets

runVars ==
    << pc, sync_scope, token_valid, user_exists, sync_run, client, status,
       finished_at, status_writes, stage_idx, started, returned, requests,
       caught, exc, propagating >>

inputVars == << sync_scope, token_valid, user_exists >>

statusVars == << status, finished_at, status_writes >>

stageVars == << stage_idx, started, returned, requests, caught >>

logVars == << log, log_failures >>

retryVars ==
    << rq_pc, has_sync_run, max_retries, request_pause_ms, attempt, response,
       http_attempts, sleeps, rq_result, rq_done, url, calls, timeline >>

pageVars ==
    << pg_pc, pg_params, page_limit, current_path_or_url, current_params,
       page, payload, yielded, pg_requests, pg_responses >>

batchVars ==
    << bt_pc, batch_size, bt_calls, bt_size, bt_start, aggregated_results,
       bt_output, bt_posts, bt_payloads, bt_answers >>

metricVars == << mx_pc, mx_row, mx_metric >>

\* The variables of the stage bodies and helpers modelled after the client.
insightVars ==
    << in_pc, in_source, in_chunks, in_chunk, in_rows, in_pos, ad_insights,
       adset_insights, campaign_insights, adset_agg, campaign_agg, rows_seen,
       ad_upserts, insight_errors, in_calls, in_processed, in_failed,
       in_fetched, in_before, in_prev >>

entityVars ==
    << en_pc, en_stage, en_accounts, en_parents, en_pending, en_chunk, en_pos,
       en_rows, en_cur, en_store, en_total, en_skipped, en_errors, en_done,
       en_issued, en_batch_size, en_rounds, en_enq >>

chunkVars ==
    << ch_pc, ch_since, ch_until, ch_chunks >>

igVars ==
    << ig_pc, ig_today, ig_since, ig_until, ig_provider, effective_since,
       date_windows, ig_window, ig_group, metric_entries, ig_missing,
       metric_error, ig_requests, ig_result >>

pollVars ==
    << sl_rows, sl_next_id, sl_status, pl_since_id, pl_received,
       pl_response >>

twoVars ==
    << tw_source, tw_pc, tw_pos, tw_adset_agg, tw_campaign_agg, tw_done,
       tw_ad_insights, tw_adset_insights, tw_campaign_insights, tw_overlap >>

ownerVars ==
    << ow_pc, ow_pos, ow_account_items, ow_adset_items, ow_page_items,
       ow_accounts, ow_adsets, ow_pages, ow_campaign_map >>

laterVars == << metricVars, insightVars, entityVars,
       chunkVars,
       igVars,
       pollVars,
       twoVars,
       ownerVars >>

vars == << runVars, logVars, retryVars, pageVars, batchVars, laterVars >>

\* --------------------------------------------------------------- SyncLog
Entry(entidade, mensagem, about) ==
    [entidade |-> entidade, mensagem |-> mensagem, about |-> about]

\* Outcomes of SyncLog.objects.create: TRUE the row is inserted, FALSE it raises.
WriteOutcomes ==
    {TRUE} \cup (IF log_failures < MaxLogFailures THEN {FALSE} ELSE {})

\* SyncLog.objects.create(...)
SyncLogCreate(entry, ok) ==
    /\ log' = IF ok THEN Append(log, entry) ELSE log
    /\ log_failures' = IF ok THEN log_failures ELSE log_failures + 1


\* ----------------------------------------------- MetaSyncOrchestrator.run()
\* _set_status: self.sync_run.status = value; save(update_fields=['status'])
SetStatus(value) ==
    /\ status' = value
    /\ status_writes' = Append(status_writes, value)
    /\ UNCHANGED finished_at

\* _finish: status and finished_at are saved together.
Finish(value) ==
    /\ status' = value
    /\ status_writes' = Append(status_writes, value)
    /\ finished_at' = TRUE

\* MetaSyncOrchestrator._log inside the try block of run(): nothing is
\* written while self.sync_run is None; a write that raises is not caught
\* here, so control passes to the except clause of run().
OrchestratorLog(entry, next_pc) ==
    IF sync_run = "None"
    THEN /\ pc' = next_pc
         /\ UNCHANGED << logVars, exc >>
    ELSE \E ok \in WriteOutcomes :
            /\ SyncLogCreate(entry, ok)
            /\ pc' = IF ok THEN next_pc ELSE "except"
            /\ exc' = IF ok THEN exc ELSE "log"

\* MetaGraphClient._log: written only when the client is bound to a run; a
\* write that raises is caught and reported to the diagnostic logger.
ClientLog(entry) ==
    IF has_sync_run
    THEN \E ok \in WriteOutcomes : SyncLogCreate(entry, ok)
    ELSE UNCHANGED logVars

\* close_old_connections(); self.sync_run = SyncRun.objects.get(id=...)
Run_LoadSyncRun ==
    /\ pc = "start"
    /\ sync_run' = "loaded"
    /\ pc' = "load_user"
    /\ UNCHANGED << inputVars, client, statusVars, stageVars, exc, propagating,
                    logVars, retryVars, pageVars,
                    batchVars, laterVars >>

\* self.dashboard_user = DashboardUser.objects.get(id=...): DoesNotExist is
\* raised when the user row is gone.
Run_LoadUser ==
    /\ pc = "load_user"
    /\ pc' = IF user_exists THEN "check_token" ELSE "except"
    /\ exc' = IF user_exists THEN exc ELSE "load_user"
    /\ UNCHANGED << inputVars, sync_run, client, statusVars, stageVars,
                    propagating, logVars, retryVars, pageVars,
                    batchVars, laterVars >>

\* if not self.dashboard_user.has_valid_long_token(): self._log(...)
Run_TokenInvalidLog ==
    /\ pc = "check_token"
    /\ ~token_valid
    /\ OrchestratorLog(Entry("sync", "token_invalid", ""), "token_finish")
    /\ UNCHANGED << inputVars, sync_run, client, statusVars, stageVars,
                    propagating, retryVars, pageVars,
                    batchVars, laterVars >>

\* The same with the return statement missing.
Mut_TokenInvalidFinishNoReturn ==
    /\ pc = "token_finish"
    /\ Finish(FAILED)
    /\ pc' = "make_client"
    /\ UNCHANGED << inputVars, sync_run, client, stageVars, exc, propagating,
                    logVars, retryVars, pageVars,
                    batchVars, laterVars >>

\* self._finish(FAILED); return
Run_TokenInvalidFinish ==
    /\ pc = "token_finish"
    /\ Finish(FAILED)
    /\ pc' = "finally"
    /\ UNCHANGED << inputVars, sync_run, client, stageVars, exc, propagating,
                    logVars, retryVars, pageVars,
                    batchVars, laterVars >>

\* the token is valid: fall through the if
Run_TokenValid ==
    /\ pc = "check_token"
    /\ token_valid
    /\ pc' = "make_client"
    /\ UNCHANGED << inputVars, sync_run, client, statusVars, stageVars, exc,
                    propagating, logVars, retryVars, pageVars,
                    batchVars, laterVars >>

\* self.client = MetaGraphClient(...); self._set_status(RUNNING)
Run_SetRunning ==
    /\ pc = "make_client"
    /\ client' = TRUE
    /\ SetStatus(RUNNING)
    /\ pc' = "check_scope"
    /\ UNCHANGED << inputVars, sync_run, stageVars, exc, propagating, logVars,
                    retryVars, pageVars,
                    batchVars, laterVars >>

\* if self.sync_scope not in self.VALID_SCOPES: self._log(...)
Run_ScopeInvalidLog ==
    /\ pc = "check_scope"
    /\ sync_scope \notin VALID_SCOPES
    /\ OrchestratorLog(Entry("sync", "scope_invalid", ""), "scope_finish")
    /\ UNCHANGED << inputVars, sync_run, client, statusVars, stageVars,
                    propagating, retryVars, pageVars,
                    batchVars, laterVars >>

\* The same with the return statement missing.
Mut_ScopeInvalidFinishNoReturn ==
    /\ pc = "scope_finish"
    /\ Finish(FAILED)
    /\ pc' = "log_started"
    /\ UNCHANGED << inputVars, sync_run, client, stageVars, exc, propagating,
                    logVars, retryVars, pageVars,
                    batchVars, laterVars >>

\* self._finish(FAILED); return
Run_ScopeInvalidFinish ==
    /\ pc = "scope_finish"
    /\ Finish(FAILED)
    /\ pc' = "finally"
    /\ UNCHANGED << inputVars, sync_run, client, stageVars, exc, propagating,
                    logVars, retryVars, pageVars,
                    batchVars, laterVars >>

\* the scope is valid: fall through the if
Run_ScopeValid ==
    /\ pc = "check_scope"
    /\ sync_scope \in VALID_SCOPES
    /\ pc' = "log_started"
    /\ UNCHANGED << inputVars, sync_run, client, statusVars, stageVars, exc,
                    propagating, logVars, retryVars, pageVars,
                    batchVars, laterVars >>

\* self._log('sync', 'Sincronizacao iniciada. Escopo=...')
Run_LogStarted ==
    /\ pc = "log_started"
    /\ OrchestratorLog(Entry("sync", "started", ""), "log_window")
    /\ UNCHANGED << inputVars, sync_run, client, statusVars, stageVars,
                    propagating, retryVars, pageVars,
                    batchVars, laterVars >>

\* since, until = self._build_date_window(); self._log('sync', 'Janela ...')
Run_LogWindow ==
    /\ pc = "log_window"
    /\ OrchestratorLog(Entry("sync", "window", ""), "next_stage")
    /\ UNCHANGED << inputVars, sync_run, client, statusVars, stageVars,
                    propagating, retryVars, pageVars,
                    batchVars, laterVars >>

\* ------------------------------------------------------------- _run_stage
CurrentStage == StagePlan(sync_scope)[stage_idx]

\* The next _run_stage call of run(): self._log('stage', '[name] inicio'),
\* then fn(*args) is entered.
Run_StageStart ==
    /\ pc = "next_stage"
    /\ stage_idx < Len(StagePlan(sync_scope))
    /\ OrchestratorLog(
           Entry("stage", "inicio", StagePlan(sync_scope)[stage_idx + 1]),
           "stage_body")
    /\ IF pc' = "stage_body"
       THEN /\ stage_idx' = stage_idx + 1
            /\ started' = Append(started, StagePlan(sync_scope)[stage_idx + 1])
       ELSE UNCHANGED << stage_idx, started >>
    /\ UNCHANGED << inputVars, sync_run, client, statusVars, returned,
                    requests, caught, propagating, retryVars, pageVars,
                    batchVars, laterVars >>

\* A client call of the stage (request_with_retry, paginate or batch_request)
\* that returns a payload.
Stage_RequestOk ==
    /\ pc = "stage_body"
    /\ requests < MaxRequests
    /\ requests' = requests + 1
    /\ ClientLog(Entry("client", "request_ok", CurrentStage))
    /\ UNCHANGED << pc, inputVars, sync_run, client, statusVars, stage_idx,
                    started, returned, caught, exc, propagating, retryVars,
                    pageVars, batchVars, laterVars >>

\* A client call outside any try/except ends in MetaClientError: the stage
\* function raises.
Stage_RequestErrorPropagates ==
    /\ pc = "stage_body"
    /\ requests < MaxRequests
    /\ CurrentStage \in UnguardedCallStages
    /\ requests' = requests + 1
    /\ ClientLog(Entry("client", "request_failed", CurrentStage))
    /\ exc' = "client"
    /\ pc' = "except"
    /\ UNCHANGED << inputVars, sync_run, client, statusVars, stage_idx,
                    started, returned, caught, propagating, retryVars, pageVars,
                    batchVars, laterVars >>

\* A client call inside try/except MetaClientError ends in MetaClientError:
\* the except clause of the stage is entered and counts the error.
Stage_RequestErrorCaught ==
    /\ pc = "stage_body"
    /\ requests < MaxRequests
    /\ CurrentStage \in GuardedCallStages
    /\ requests' = requests + 1
    /\ ClientLog(Entry("client", "request_failed", CurrentStage))
    /\ caught' = caught + 1
    /\ pc' = "stage_catch_log"
    /\ UNCHANGED << inputVars, sync_run, client, statusVars, stage_idx,
                    started, returned, exc, propagating, retryVars, pageVars,
                    batchVars, laterVars >>

\* self._log(...) in the except clause of the stage, then the stage goes on.
Stage_CatchLog ==
    /\ pc = "stage_catch_log"
    /\ OrchestratorLog(Entry("stage_item", "item_failed", CurrentStage),
                       "stage_body")
    /\ UNCHANGED << inputVars, sync_run, client, statusVars, stageVars,
                    propagating, retryVars, pageVars,
                    batchVars, laterVars >>

\* The same with the exception swallowed by _run_stage.
Mut_StageRaiseSwallowed ==
    /\ pc = "stage_body"
    /\ pc' = "stage_done_log"
    /\ UNCHANGED << inputVars, sync_run, client, statusVars, stageVars, exc,
                    propagating, logVars, retryVars, pageVars,
                    batchVars, laterVars >>

\* Any other exception inside the stage function (a store error, a value the
\* stage does not expect): the stage function raises.
Stage_Raise ==
    /\ pc = "stage_body"
    /\ exc' = "stage"
    /\ pc' = "except"
    /\ UNCHANGED << inputVars, sync_run, client, statusVars, stageVars,
                    propagating, logVars, retryVars, pageVars,
                    batchVars, laterVars >>

\* result = fn(*args) returns.
Stage_Return ==
    /\ pc = "stage_body"
    /\ returned' = Append(returned, CurrentStage)
    /\ pc' = "stage_done_log"
    /\ UNCHANGED << inputVars, sync_run, client, statusVars, stage_idx,
                    started, requests, caught, exc, propagating, logVars,
                    retryVars, pageVars,
                    batchVars, laterVars >>

\* self._log('stage', '[name] concluido em ...'); return result
Run_StageDone ==
    /\ pc = "stage_done_log"
    /\ OrchestratorLog(Entry("stage", "concluido", CurrentStage), "next_stage")
    /\ UNCHANGED << inputVars, sync_run, client, statusVars, stageVars,
                    propagating, retryVars, pageVars,
                    batchVars, laterVars >>

\* self._log('sync', 'Sincronizacao concluida com sucesso.')
Run_LogSuccess ==
    /\ pc = "next_stage"
    /\ stage_idx = Len(StagePlan(sync_scope))
    /\ OrchestratorLog(Entry("sync", "concluida", ""), "finish_success")
    /\ UNCHANGED << inputVars, sync_run, client, statusVars, stageVars,
                    propagating, retryVars, pageVars,
                    batchVars, laterVars >>

\* self._finish(SUCCESS)
Run_FinishSuccess ==
    /\ pc = "finish_success"
    /\ Finish(SUCCESS)
    /\ pc' = "finally"
    /\ UNCHANGED << inputVars, sync_run, client, stageVars, exc, propagating,
                    logVars, retryVars, pageVars,
                    batchVars, laterVars >>

\* except Exception as exc: logger.exception(...); self._log('sync', 'Erro...').
\* A write that raises here leaves the except clause: the exception
\* propagates out of run() and _finish is not reached.
Run_ExceptLog ==
    /\ pc = "except"
    /\ IF sync_run = "None"
       THEN /\ pc' = "except_finish"
            /\ UNCHANGED << logVars, propagating >>
       ELSE \E ok \in WriteOutcomes :
               /\ SyncLogCreate(Entry("sync", "erro", ""), ok)
               /\ pc' = IF ok THEN "except_finish" ELSE "finally"
               /\ propagating' = ~ok
    /\ UNCHANGED << inputVars, sync_run, client, statusVars, stageVars, exc,
                    retryVars, pageVars,
                    batchVars, laterVars >>

\* if self.sync_run is not None: self._finish(FAILED)
Run_ExceptFinish ==
    /\ pc = "except_finish"
    /\ IF sync_run # "None" THEN Finish(FAILED) ELSE UNCHANGED statusVars
    /\ pc' = "finally"
    /\ UNCHANGED << inputVars, sync_run, client, stageVars, exc, propagating,
                    logVars, retryVars, pageVars,
                    batchVars, laterVars >>

\* finally: close_old_connections(); run() returns or the exception leaves it.
Run_Finally ==
    /\ pc = "finally"
    /\ pc' = IF propagating THEN "run_raised" ELSE "run_returned"
    /\ UNCHANGED << inputVars, sync_run, client, statusVars, stageVars, exc,
                    propagating, logVars, retryVars, pageVars,
                    batchVars, laterVars >>

\* _run_sync_in_background: run() returned.
Background_Returned ==
    /\ pc = "run_returned"
    /\ pc' = "thread_done"
    /\ UNCHANGED << inputVars, sync_run, client, statusVars, stageVars, exc,
                    propagating, logVars, retryVars, pageVars,
                    batchVars, laterVars >>

\* _run_sync_in_background: except Exception: logger.exception(...)
Background_Except ==
    /\ pc = "run_raised"
    /\ pc' = "thread_done"
    /\ propagating' = FALSE
    /\ UNCHANGED << inputVars, sync_run, client, statusVars, stageVars, exc,
                    logVars, retryVars, pageVars,
                    batchVars, laterVars >>

\* The client run() constructs: request_pause_seconds=0.6, max_retries=5.
RunMaxRetries == 5
RunRequestPauseMs == 600

NoResponse == [kind |-> "none", code |-> 0, text |-> << >>]

\* A payload that is not a JSON object (request_with_retry returned a list).
NonDictPayload ==
    [is_dict |-> FALSE,
     data |-> [is_list |-> FALSE, rows |-> << >>],
     paging |-> [is_dict |-> FALSE, next |-> << >>, after |-> ""]]

\* The batch_size run() gives its client, and the one the unit test gives.
RunBatchSize == 50
TestBatchSize == 2

\* State of the _normalize_metrics variables while no row is modelled.
MetricIdle ==
    /\ mx_pc = "idle"
    /\ mx_row = << >>
    /\ mx_metric = << >>

\* State of the stage-body variables while no stage body is modelled.
\* State of the sync_ad_insights variables while the stage is not modelled.
InsightIdle ==
    /\ in_pc = "idle"
    /\ in_source = << >>
    /\ in_chunks = << >>
    /\ in_chunk = 0
    /\ in_rows = << >>
    /\ in_pos = 0
    /\ ad_insights = << >>
    /\ adset_insights = << >>
    /\ campaign_insights = << >>
    /\ adset_agg = << >>
    /\ campaign_agg = << >>
    /\ rows_seen = 0
    /\ ad_upserts = 0
    /\ insight_errors = 0
    /\ in_calls = 0
    /\ in_processed = << >>
    /\ in_failed = {}
    /\ in_fetched = {}
    /\ in_before = << << >>, << >>, << >> >>
    /\ in_prev = [clean |-> FALSE, chunks |-> << >>]

\* State of the entity-stage variables while no such stage is modelled.
EntityIdle ==
    /\ en_pc = "idle"
    /\ en_stage = "sync_campaigns"
    /\ en_accounts = << >>
    /\ en_parents = {}
    /\ en_pending = << >>
    /\ en_chunk = << >>
    /\ en_pos = 0
    /\ en_rows = << >>
    /\ en_cur = << >>
    /\ en_store = {}
    /\ en_total = 0
    /\ en_skipped = 0
    /\ en_errors = 0
    /\ en_done = << >>
    /\ en_issued = 0
    /\ en_batch_size = RunBatchSize
    /\ en_rounds = << >>
    /\ en_enq = << >>

\* State of the _iter_month_chunks variables while it is not modelled.
ChunkIdle ==
    /\ ch_pc = "idle"
    /\ ch_since = 0
    /\ ch_until = 0
    /\ ch_chunks = << >>

\* State of the _fetch_instagram_account_insights variables while it is
\* not modelled.
IgIdle ==
    /\ ig_pc = "idle"
    /\ ig_today = 0
    /\ ig_since = 0
    /\ ig_until = 0
    /\ ig_provider = << >>
    /\ effective_since = 0
    /\ date_windows = << >>
    /\ ig_window = 0
    /\ ig_group = 0
    /\ metric_entries = {}
    /\ ig_missing = << >>
    /\ metric_error = FALSE
    /\ ig_requests = << >>
    /\ ig_result = "none"

\* State of the meta_sync_logs variables while
\* it is not modelled.
PollIdle ==
    /\ sl_rows = {}
    /\ sl_next_id = 1
    /\ sl_status = "none"
    /\ pl_since_id = 0
    /\ pl_received = << >>
    /\ pl_response = << >>

\* State of the two concurrent sync_ad_insights calls variables while
\* it is not modelled.
TwoIdle ==
    /\ tw_source = << >>
    /\ tw_pc = << >>
    /\ tw_pos = << >>
    /\ tw_adset_agg = << >>
    /\ tw_campaign_agg = << >>
    /\ tw_done = << >>
    /\ tw_ad_insights = << >>
    /\ tw_adset_insights = << >>
    /\ tw_campaign_insights = << >>
    /\ tw_overlap = FALSE

\* State of the entity stages of a run beside another user's rows variables while
\* it is not modelled.
OwnerIdle ==
    /\ ow_pc = "idle"
    /\ ow_pos = 0
    /\ ow_account_items = << >>
    /\ ow_adset_items = << >>
    /\ ow_page_items = << >>
    /\ ow_accounts = {}
    /\ ow_adsets = {}
    /\ ow_pages = {}
    /\ ow_campaign_map = {}

LaterIdle ==
    MetricIdle /\ InsightIdle /\ EntityIdle /\ ChunkIdle /\ IgIdle /\ PollIdle /\ TwoIdle /\ OwnerIdle

\* State of the batch_request variables while no batch is modelled.
BatchIdle ==
    /\ bt_pc = "idle"
    /\ batch_size = RunBatchSize
    /\ bt_calls = << >>
    /\ bt_size = 0
    /\ bt_start = 0
    /\ aggregated_results = << >>
    /\ bt_output = << >>
    /\ bt_posts = << >>
    /\ bt_payloads = << >>
    /\ bt_answers = {}

\* State of the paginate variables while no listing is modelled.
PageIdle ==
    /\ pg_pc = "idle"
    /\ pg_params = {}
    /\ page_limit = {}
    /\ current_path_or_url = << >>
    /\ current_params = {}
    /\ page = 0
    /\ payload = NonDictPayload
    /\ yielded = << >>
    /\ pg_requests = << >>
    /\ pg_responses = << >>

\* State of the retry variables while no client call is modelled step by step.
RetryIdle ==
    /\ rq_pc = "idle"
    /\ has_sync_run = TRUE
    /\ max_retries = RunMaxRetries
    /\ request_pause_ms = RunRequestPauseMs
    /\ attempt = 0
    /\ response = NoResponse
    /\ http_attempts = 0
    /\ sleeps = << >>
    /\ rq_result = "none"
    /\ rq_done = FALSE
    /\ url = << >>
    /\ calls = 0
    /\ timeline = << >>

\* _start_sync created the run PENDING and started the worker thread with
\* MetaSyncOrchestrator(sync_run_id, dashboard_user_id, sync_scope, ...).
Init ==
    /\ pc = "start"
    /\ sync_scope \in {NormalizeScope(a) : a \in ScopeArgs}
    /\ token_valid \in BOOLEAN
    /\ user_exists \in BOOLEAN
    /\ sync_run = "None"
    /\ client = FALSE
    /\ status = PENDING
    /\ finished_at = FALSE
    /\ status_writes = << >>
    /\ stage_idx = 0
    /\ started = << >>
    /\ returned = << >>
    /\ requests = 0
    /\ caught = 0
    /\ exc = "none"
    /\ propagating = FALSE
    /\ log = << >>
    /\ log_failures = 0
    /\ RetryIdle
    /\ PageIdle
    /\ BatchIdle
    /\ LaterIdle

Next ==
    \/ Run_LoadSyncRun
    \/ Run_LoadUser
    \/ Run_TokenInvalidLog
    \/ Run_TokenInvalidFinish
    \/ Run_TokenValid
    \/ Run_SetRunning
    \/ Run_ScopeInvalidLog
    \/ Run_ScopeInvalidFinish
    \/ Run_ScopeValid
    \/ Run_LogStarted
    \/ Run_LogWindow
    \/ Run_StageStart
    \/ Stage_RequestOk
    \/ Stage_RequestErrorPropagates
    \/ Stage_RequestErrorCaught
    \/ Stage_CatchLog
    \/ Stage_Raise
    \/ Stage_Return
    \/ Run_StageDone
    \/ Run_LogSuccess
    \/ Run_FinishSuccess
    \/ Run_ExceptLog
    \/ Run_ExceptFinish
    \/ Run_Finally
    \/ Background_Returned
    \/ Background_Except

Spec == Init /\ [][Next]_vars


\* ------------------------------------- MetaGraphClient.request_with_retry
\* HTTP status codes a response may carry.
StatusCodes == {199, 200, 204, 299, 300, 400, 404, 408, 429, 500, 502, 503, 504}

\* self.access_token of the client.
AccessToken == "token-123"

\* path_or_url arguments: a relative edge path, and an absolute next-page url
\* whose query carries access_token.
RelativePath == << "me/adaccounts" >>

\* paging.next as the provider builds it: the edge url with an after cursor
\* (cursor "" : none) and the access_token in its query.
NextUrl(cursor) ==
    << "https://", "graph.facebook.com/v24.0/me/adaccounts" >>
    \o (IF cursor = "" THEN << "?limit=1" >> ELSE << "?after=", cursor >>)
    \o << "&access_token=", AccessToken >>

NextPageUrl == NextUrl("abc")

PathOrUrls == {RelativePath, NextPageUrl}

Contains(text, piece) == \E i \in 1..Len(text) : text[i] = piece

\* _build_url: an absolute url is returned unchanged, a relative path is put
\* behind base_url and graph_version.
BuildUrl(path_or_url) ==
    IF path_or_url[1] \in {"http://", "https://"}
    THEN path_or_url
    ELSE << "https://", "graph.facebook.com/v24.0/" >> \o path_or_url

\* The url session.request sends: request_params (with access_token put in
\* unless the url carries one) are appended to the query.
PreparedUrl(u) ==
    IF Contains(u, "&access_token=")
    THEN u
    ELSE u \o << "?access_token=", AccessToken >>

\* _redact_url: url.replace(token, '***')
RedactUrl(u) ==
    IF Contains(u, AccessToken)
    THEN [i \in 1..Len(u) |-> IF u[i] = AccessToken THEN "***" ELSE u[i]]
    ELSE u

\* str(exc) of a requests.RequestException: a timeout names host and
\* timeout, a connection error names the url that was requested.
ExcTexts(u) ==
    { << "Read timed out. (read timeout=30)" >>,
      << "Max retries exceeded with url: " >> \o PreparedUrl(u) }

\* _extract_error_message: the provider's error.message or raw text.
ErrorMessage == << "(#100) provider error message" >>

\* session.request either raises requests.RequestException or returns a response.
Outcomes(u) ==
    {[kind |-> "exc", code |-> 0, text |-> t] : t \in ExcTexts(u)}
    \cup {[kind |-> "http", code |-> c, text |-> ErrorMessage] : c \in StatusCodes}

\* MetaGraphClient.__init__: max_retries: int = 5
DefaultMaxRetries == 5

\* max_retries values a client is constructed with (the constructor rejects < 1).
MaxRetriesValues == 1..MaxRetriesBound

\* request_pause_seconds values a client is constructed with, in milliseconds.
RequestPauseValues == {0, RunRequestPauseMs}

\* The retriable test widened to every status from 400 on.
Mut_IsRetriableFrom400(status_code) == status_code >= 400

\* _is_retriable
IsRetriable(status_code) == status_code \in {408, 429, 500, 502, 503, 504}

\* A linear backoff, 2 * attempt.
Mut_BackoffLinear(n) == 2 * n

\* _backoff_seconds: float(2 ** attempt)
BackoffSeconds(n) == 2 ^ n

Sleep(kind, amount) == [kind |-> kind, amount |-> amount]

\* A SyncLog row of the client: the message kind, the attempt it is about and
\* the text the message embeds.
Line(entidade, mensagem, about, text) ==
    [entidade |-> entidade, mensagem |-> mensagem, about |-> about,
     text |-> text]

\* The call is entered: url and params are built, the loop starts at attempt 1.
Rq_Call ==
    /\ rq_pc = "idle"
    /\ \E p \in PathOrUrls : url' = BuildUrl(p)
    /\ attempt' = 1
    /\ calls' = calls + 1
    /\ rq_pc' = "loop"
    /\ UNCHANGED << runVars, pageVars, batchVars, laterVars,
                    logVars, has_sync_run, max_retries,
                    request_pause_ms, response, http_attempts, sleeps,
                    rq_result, rq_done, timeline >>

\* The caller makes another request_with_retry call on the same client.
Rq_NextCall ==
    /\ rq_pc \in {"returned", "raised"}
    /\ calls < MaxCalls
    /\ \E p \in PathOrUrls : url' = BuildUrl(p)
    /\ attempt' = 1
    /\ calls' = calls + 1
    /\ rq_pc' = "loop"
    /\ response' = NoResponse
    /\ http_attempts' = 0
    /\ sleeps' = << >>
    /\ rq_result' = "none"
    /\ rq_done' = FALSE
    /\ UNCHANGED << runVars, pageVars, batchVars, laterVars,
                    logVars, has_sync_run, max_retries,
                    request_pause_ms, timeline >>

\* One turn of `for attempt in range(1, self.max_retries + 1)`: the attempt is
\* logged and session.request is called; past the range the function raises
\* 'Unexpected retry flow termination'.
Rq_Attempt ==
    /\ rq_pc = "loop"
    /\ IF attempt > max_retries
       THEN /\ rq_result' = "unexpected"
            /\ rq_pc' = "raised"
            /\ rq_done' = TRUE
            /\ UNCHANGED << logVars, response, http_attempts >>
       ELSE /\ ClientLog(Line("meta_graph", "attempt", attempt, RedactUrl(url)))
            /\ \E r \in Outcomes(url) : response' = r
            /\ http_attempts' = http_attempts + 1
            /\ rq_pc' = "response"
            /\ UNCHANGED << rq_result, rq_done >>
    /\ UNCHANGED << runVars, pageVars, batchVars, laterVars,
                    has_sync_run, max_retries, request_pause_ms,
                    attempt, sleeps, url, calls, timeline >>

\* The same with the last-attempt test off by one (attempt > max_retries).
Mut_TransportErrorOffByOne ==
    /\ rq_pc = "response"
    /\ response.kind = "exc"
    /\ IF attempt > max_retries
       THEN /\ ClientLog(Line("meta_graph", "failed_after_retries", attempt,
                              response.text))
            /\ rq_result' = "network_error"
            /\ rq_pc' = "raised"
            /\ rq_done' = TRUE
            /\ UNCHANGED << attempt, sleeps >>
       ELSE /\ ClientLog(Line("meta_graph", "network_error_retrying", attempt,
                              response.text))
            /\ sleeps' = Append(sleeps, Sleep("backoff", BackoffSeconds(attempt)))
            /\ attempt' = attempt + 1
            /\ rq_pc' = "loop"
            /\ UNCHANGED << rq_result, rq_done >>
    /\ UNCHANGED << runVars, pageVars, batchVars, laterVars,
                    has_sync_run, max_retries, request_pause_ms,
                    response, http_attempts, url, calls, timeline >>

\* except requests.RequestException: on the last attempt log and raise
\* MetaClientError, otherwise log, sleep the backoff and continue.  Both
\* messages embed str(exc).
Rq_TransportError ==
    /\ rq_pc = "response"
    /\ response.kind = "exc"
    /\ IF attempt >= max_retries
       THEN /\ ClientLog(Line("meta_graph", "failed_after_retries", attempt,
                              response.text))
            /\ rq_result' = "network_error"
            /\ rq_pc' = "raised"
            /\ rq_done' = TRUE
            /\ UNCHANGED << attempt, sleeps >>
       ELSE /\ ClientLog(Line("meta_graph", "network_error_retrying", attempt,
                              response.text))
            /\ sleeps' = Append(sleeps, Sleep("backoff", BackoffSeconds(attempt)))
            /\ attempt' = attempt + 1
            /\ rq_pc' = "loop"
            /\ UNCHANGED << rq_result, rq_done >>
    /\ UNCHANGED << runVars, pageVars, batchVars, laterVars,
                    has_sync_run, max_retries, request_pause_ms,
                    response, http_attempts, url, calls, timeline >>

\* The success branch without the pacing sleep.
Mut_SuccessWithoutPause ==
    /\ rq_pc = "response"
    /\ response.kind = "http"
    /\ 200 <= response.code /\ response.code < 300
    /\ ClientLog(Line("meta_graph", "success", attempt, << >>))
    /\ timeline' = Append(timeline, "ok")
    /\ rq_result' = "payload"
    /\ rq_pc' = "returned"
    /\ rq_done' = TRUE
    /\ UNCHANGED << runVars, pageVars, batchVars, laterVars,
                    has_sync_run, max_retries, request_pause_ms,
                    attempt, response, http_attempts, url, calls, sleeps >>

\* if 200 <= response.status_code < 300: log, sleep request_pause_seconds when
\* it is > 0, return payload
Rq_Success ==
    /\ rq_pc = "response"
    /\ response.kind = "http"
    /\ 200 <= response.code /\ response.code < 300
    /\ ClientLog(Line("meta_graph", "success", attempt, << >>))
    /\ sleeps' = IF request_pause_ms > 0
                 THEN Append(sleeps, Sleep("pause", request_pause_ms))
                 ELSE sleeps
    /\ timeline' = IF request_pause_ms > 0
                   THEN timeline \o << "ok", "pause" >>
                   ELSE Append(timeline, "ok")
    /\ rq_result' = "payload"
    /\ rq_pc' = "returned"
    /\ rq_done' = TRUE
    /\ UNCHANGED << runVars, pageVars, batchVars, laterVars,
                    has_sync_run, max_retries, request_pause_ms,
                    attempt, response, http_attempts, url, calls >>

\* A non-2xx response: retriable and not the last attempt -> log, sleep the
\* backoff, continue; otherwise log and raise MetaClientError.  Both messages
\* embed the extracted error message.
Rq_HttpError ==
    /\ rq_pc = "response"
    /\ response.kind = "http"
    /\ ~(200 <= response.code /\ response.code < 300)
    /\ IF IsRetriable(response.code) /\ attempt < max_retries
       THEN /\ ClientLog(Line("meta_graph", "status_error_retrying", attempt,
                              response.text))
            /\ sleeps' = Append(sleeps, Sleep("backoff", BackoffSeconds(attempt)))
            /\ attempt' = attempt + 1
            /\ rq_pc' = "loop"
            /\ UNCHANGED << rq_result, rq_done >>
       ELSE /\ ClientLog(Line("meta_graph", "failed_status", attempt,
                              response.text))
            /\ rq_result' = "api_error"
            /\ rq_pc' = "raised"
            /\ rq_done' = TRUE
            /\ UNCHANGED << attempt, sleeps >>
    /\ UNCHANGED << runVars, pageVars, batchVars, laterVars,
                    has_sync_run, max_retries, request_pause_ms,
                    response, http_attempts, url, calls, timeline >>

\* State of the run variables while only a client is modelled.
RunIdle ==
    /\ pc = "no_run"
    /\ sync_scope = SCOPE_ALL
    /\ token_valid = TRUE
    /\ user_exists = TRUE
    /\ sync_run = "None"
    /\ client = TRUE
    /\ status = PENDING
    /\ finished_at = FALSE
    /\ status_writes = << >>
    /\ stage_idx = 0
    /\ started = << >>
    /\ returned = << >>
    /\ requests = 0
    /\ caught = 0
    /\ exc = "none"
    /\ propagating = FALSE

\* MetaGraphClient.__init__ with any accepted max_retries and pause, bound to a
\* SyncRun or not; no call made yet.
InitRetry ==
    /\ RunIdle
    /\ log = << >>
    /\ log_failures = 0
    /\ rq_pc = "idle"
    /\ has_sync_run \in BOOLEAN
    /\ max_retries \in MaxRetriesValues
    /\ request_pause_ms \in RequestPauseValues
    /\ attempt = 0
    /\ response = NoResponse
    /\ http_attempts = 0
    /\ sleeps = << >>
    /\ rq_result = "none"
    /\ rq_done = FALSE
    /\ url = << >>
    /\ calls = 0
    /\ timeline = << >>
    /\ PageIdle
    /\ BatchIdle
    /\ LaterIdle

NextRetry ==
    \/ Rq_Call
    \/ Rq_Attempt
    \/ Rq_TransportError
    \/ Rq_Success
    \/ Rq_HttpError

SpecRetry == InitRetry /\ [][NextRetry]_vars

\* A client that is not bound to a SyncRun (as tests and
\* empresa/meta_funding_service.py construct it) and serves up to MaxCalls
\* request_with_retry calls, one after the other.
InitClient ==
    /\ InitRetry
    /\ has_sync_run = FALSE

NextClient ==
    \/ NextRetry
    \/ Rq_NextCall

SpecClient == InitClient /\ [][NextClient]_vars


\* ---------------------------------------------- MetaGraphClient.paginate
\* params arguments: None, or a dict of query parameters.
ParamsArgs == { {}, {<< "limit", "1" >>} }

\* page_limit arguments: None, or a number of pages.
PageLimits == { {} } \cup { {n} : n \in 1..MaxPages }

\* The after cursor the provider hands out with its k-th page.
CursorNames == << "c1", "c2", "c3", "c4", "c5", "c6", "c7", "c8" >>

\* The rows of the k-th page: n records, each known by page and position.
Rows(k, n) == [i \in 1..n |-> << k, i >>]

\* 'data' of a payload: missing or not a list, an empty list, two records.
DataChoices(k) ==
    { [is_list |-> FALSE, rows |-> << >>],
      [is_list |-> TRUE, rows |-> << >>],
      [is_list |-> TRUE, rows |-> Rows(k, 2)] }

\* 'paging' of a payload that leads nowhere: missing or not a dict, or a dict
\* with neither next nor cursors.after.
LastPagings ==
    { [is_dict |-> FALSE, next |-> << >>, after |-> ""],
      [is_dict |-> TRUE, next |-> << >>, after |-> ""] }

\* 'paging' of a payload that leads on: next only (with or without after in
\* its query), cursors.after only, or both.
MorePagings(k) ==
    { [is_dict |-> TRUE, next |-> NextUrl(CursorNames[k]), after |-> ""],
      [is_dict |-> TRUE, next |-> NextUrl(""), after |-> ""],
      [is_dict |-> TRUE, next |-> << >>, after |-> CursorNames[k]],
      [is_dict |-> TRUE, next |-> NextUrl(CursorNames[k]),
       after |-> CursorNames[k]] }

\* The payloads request_with_retry may return for page k; the provider's
\* listing has at most MaxPages pages.
PagePayloads(k) ==
    {NonDictPayload}
    \cup { [is_dict |-> TRUE, data |-> d, paging |-> g] :
             d \in DataChoices(k),
             g \in LastPagings \cup (IF k < MaxPages THEN MorePagings(k) ELSE {}) }

\* dict[key] = value
DictSet(d, key, value) == {kv \in d : kv[1] # key} \cup {<< key, value >>}

\* Only the first item of a page.
Mut_ItemsFirstOnly(p) ==
    IF p.is_dict /\ p.data.is_list /\ Len(p.data.rows) > 0
    THEN << p.data.rows[1] >>
    ELSE << >>

\* items = payload.get('data') if isinstance(payload, dict) else None;
\* if not isinstance(items, list): items = []
Items(p) == IF p.is_dict /\ p.data.is_list THEN p.data.rows ELSE << >>

\* parse_qs(urlparse(next_url).query).get('after')
AfterInQuery(u) ==
    IF \E i \in 1..(Len(u) - 1) : u[i] = "?after="
    THEN u[CHOOSE i \in 1..(Len(u) - 1) : u[i] = "?after="]
    ELSE ""

\* next_url = paging.get('next') if isinstance(paging, dict) else None
NextUrlOf(p) == IF p.is_dict /\ p.paging.is_dict THEN p.paging.next ELSE << >>

\* after_cursor: cursors.after, else the after of the query of next_url.
AfterCursorOf(p) ==
    IF p.is_dict /\ p.paging.is_dict
    THEN IF p.paging.after = "" /\ NextUrlOf(p) # << >>
         THEN AfterInQuery(NextUrlOf(p))
         ELSE p.paging.after
    ELSE ""

Request(path_or_url, params) == [path_or_url |-> path_or_url, params |-> params]

\* The cursor tried before the next url.
Mut_NextRequestCursorFirst(p, path_or_url, params) ==
    IF AfterCursorOf(p) # ""
    THEN [more |-> TRUE, via |-> "cursor",
          request |-> Request(path_or_url,
                              DictSet(params, "after", AfterCursorOf(p)))]
    ELSE IF NextUrlOf(p) # << >>
    THEN [more |-> TRUE, via |-> "next", request |-> Request(NextUrlOf(p), {})]
    ELSE [more |-> FALSE, via |-> "end", request |-> Request(<< >>, {})]

\* Lines 160-176: next_url first (requested with empty params), then the
\* after cursor (original path, original params plus after), else the end.
NextRequest(p, path_or_url, params) ==
    IF NextUrlOf(p) # << >>
    THEN [more |-> TRUE, via |-> "next", request |-> Request(NextUrlOf(p), {})]
    ELSE IF AfterCursorOf(p) # ""
    THEN [more |-> TRUE, via |-> "cursor",
          request |-> Request(path_or_url,
                              DictSet(params, "after", AfterCursorOf(p)))]
    ELSE [more |-> FALSE, via |-> "end", request |-> Request(<< >>, {})]

pageFrame == << runVars, retryVars, batchVars, laterVars >>

\* paginate(path_or_url, params=..., page_limit=...) is entered.
Pg_Call ==
    /\ pg_pc = "idle"
    /\ \E a \in ParamsArgs : pg_params' = a /\ current_params' = a
    /\ \E l \in PageLimits : page_limit' = l
    /\ current_path_or_url' = RelativePath
    /\ page' = 1
    /\ pg_pc' = "loop"
    /\ UNCHANGED << pageFrame, logVars, payload, yielded, pg_requests,
                    pg_responses >>

\* while current_path_or_url: stop on page_limit, else log 'Fetching page' and
\* call request_with_retry('GET', current_path_or_url, current_params).
Pg_LoopHead ==
    /\ pg_pc = "loop"
    /\ IF current_path_or_url = << >>
       THEN /\ pg_pc' = "ended"
            /\ UNCHANGED << logVars, pg_requests >>
       ELSE IF page_limit # {} /\ (\E n \in page_limit : page > n)
       THEN /\ ClientLog(Line("meta_graph", "stopped_by_page_limit", page, << >>))
            /\ pg_pc' = "stopped"
            /\ UNCHANGED pg_requests
       ELSE /\ ClientLog(Line("meta_graph", "fetching_page", page, << >>))
            /\ pg_requests' =
                  Append(pg_requests, Request(current_path_or_url, current_params))
            /\ pg_pc' = "request"
    /\ UNCHANGED << pageFrame, pg_params, page_limit, current_path_or_url,
                    current_params, page, payload, yielded, pg_responses >>

\* The error logged and then dropped, the generator ending normally.
Mut_RequestErrorSwallowed ==
    /\ pg_pc = "request"
    /\ \/ /\ ClientLog(Line("meta_graph", "pagination_error", page, ErrorMessage))
          /\ pg_pc' = "finished"
          /\ UNCHANGED << payload, pg_responses >>
       \/ /\ \E p \in PagePayloads(page) :
                /\ payload' = p
                /\ pg_responses' = Append(pg_responses, p)
          /\ pg_pc' = "fetched"
          /\ UNCHANGED logVars
    /\ UNCHANGED << pageFrame, pg_params, page_limit, current_path_or_url,
                    current_params, page, yielded, pg_requests >>

\* request_with_retry raises MetaClientError (logged with the page, raised
\* again) or returns the payload of the page.
Pg_Request ==
    /\ pg_pc = "request"
    /\ \/ /\ ClientLog(Line("meta_graph", "pagination_error", page, ErrorMessage))
          /\ pg_pc' = "raised"
          /\ UNCHANGED << payload, pg_responses >>
       \/ /\ \E p \in PagePayloads(page) :
                /\ payload' = p
                /\ pg_responses' = Append(pg_responses, p)
          /\ pg_pc' = "fetched"
          /\ UNCHANGED logVars
    /\ UNCHANGED << pageFrame, pg_params, page_limit, current_path_or_url,
                    current_params, page, yielded, pg_requests >>

\* The rows of the page are logged and yielded one by one.
Pg_Yield ==
    /\ pg_pc = "fetched"
    /\ ClientLog(Line("meta_graph", "page_received", page, << >>))
    /\ yielded' = yielded \o Items(payload)
    /\ pg_pc' = "paging"
    /\ UNCHANGED << pageFrame, pg_params, page_limit, current_path_or_url,
                    current_params, page, payload, pg_requests, pg_responses >>

\* The next request is chosen from the paging envelope, or pagination ends.
Pg_Advance ==
    /\ pg_pc = "paging"
    /\ LET nxt == NextRequest(payload, RelativePath, pg_params) IN
       IF nxt.more
       THEN /\ ClientLog(Line("meta_graph", nxt.via, page, << >>))
            /\ current_path_or_url' = nxt.request.path_or_url
            /\ current_params' = nxt.request.params
            /\ page' = page + 1
            /\ pg_pc' = "loop"
       ELSE /\ ClientLog(Line("meta_graph", "pagination_finished", page, << >>))
            /\ pg_pc' = "finished"
            /\ UNCHANGED << current_path_or_url, current_params, page >>
    /\ UNCHANGED << pageFrame, pg_params, page_limit, payload, yielded,
                    pg_requests, pg_responses >>

\* A client bound to a SyncRun, as run() builds it, listing one edge.  The
\* SyncLog writes of the listing succeed: a write that raises is swallowed by
\* _log and changes nothing in paginate.
InitPaginate ==
    /\ RunIdle
    /\ RetryIdle
    /\ PageIdle
    /\ BatchIdle
    /\ LaterIdle
    /\ log = << >>
    /\ log_failures = MaxLogFailures

NextPaginate ==
    \/ Pg_Call
    \/ Pg_LoopHead
    \/ Pg_Request
    \/ Pg_Yield
    \/ Pg_Advance

SpecPaginate == InitPaginate /\ [][NextPaginate]_vars


\* ----------------------------------------- MetaGraphClient.batch_request
\* A Python value of a batch item: None, a str, or a dict (named by its
\* content).
NoneValue == [kind |-> "None", v |-> ""]

StrValue(text) == [kind |-> "str", v |-> text]

DictValue(content) == [kind |-> "dict", v |-> content]

\* json.loads(text): the parsed value, or JSONDecodeError.
JsonLoads(text) ==
    CASE text = "{\"ok\":1}" -> [raises |-> FALSE, value |-> DictValue("ok=1")]
      [] text = "{\"error\":\"bad\"}" ->
             [raises |-> FALSE, value |-> DictValue("error=bad")]
      [] text = "null" -> [raises |-> FALSE, value |-> NoneValue]
      [] OTHER -> [raises |-> TRUE, value |-> NoneValue]

\* An item of the batch response: a dict with code (a set: {} when missing),
\* body and headers, or something that is not a dict (null for a call that
\* timed out).
RawItem(code, body, headers) ==
    [is_dict |-> TRUE, code |-> code, body |-> body, headers |-> headers]

NullItem ==
    [is_dict |-> FALSE, code |-> {}, body |-> NoneValue, headers |-> << >>]

RawItems ==
    { NullItem,
      RawItem({200}, StrValue("{\"ok\":1}"), << >>),
      RawItem({400}, StrValue("{\"error\":\"bad\"}"), << "WWW-Authenticate" >>),
      RawItem({502}, StrValue("<html>Bad Gateway</html>"), << >>),
      RawItem({200}, StrValue("null"), << >>),
      RawItem({200}, DictValue("ok=2"), << >>),
      RawItem({}, NoneValue, << >>) }

Normalized(status_code, headers, body, body_raw) ==
    [status_code |-> status_code, headers |-> headers, body |-> body,
     body_raw |-> body_raw]

\* The body left as the raw string when it is not valid JSON.
Mut_NormalizeItemKeepsRaw(item) ==
    IF ~item.is_dict
    THEN Normalized(500, << >>, NoneValue, StrValue("None"))
    ELSE Normalized(
            IF item.code = {} THEN 0 ELSE CHOOSE c \in item.code : TRUE,
            item.headers,
            IF item.body.kind = "str" /\ ~JsonLoads(item.body.v).raises
            THEN JsonLoads(item.body.v).value
            ELSE item.body,
            item.body)

\* The body of the loop of _normalize_batch_results.
NormalizeItem(item) ==
    IF ~item.is_dict
    THEN Normalized(500, << >>, NoneValue, StrValue("None"))
    ELSE Normalized(
            IF item.code = {} THEN 0 ELSE CHOOSE c \in item.code : TRUE,
            item.headers,
            IF item.body.kind = "str"
            THEN IF JsonLoads(item.body.v).raises
                 THEN NoneValue
                 ELSE JsonLoads(item.body.v).value
            ELSE item.body,
            item.body)

\* The items that are not dicts left out.
Mut_NormalizeSkipsNonDict(payload_list) ==
    LET dicts == SelectSeq(payload_list, LAMBDA item : item.is_dict)
    IN  [i \in 1..Len(dicts) |-> NormalizeItem(dicts[i])]

\* _normalize_batch_results
NormalizeBatchResults(payload_list) ==
    [i \in 1..Len(payload_list) |-> NormalizeItem(payload_list[i])]

\* calls arguments: n calls, known by their position.
CallLists == { [i \in 1..n |-> i] : n \in 0..MaxBatchCalls }

\* batch_size arguments: None ({}) or a number; 0 is falsy, -1 is rejected.
BatchSizeArgs == { {} } \cup { {n} : n \in -1..MaxBatchCalls }

\* size = batch_size or self.batch_size
SizeOf(arg, self_batch_size) ==
    IF arg = {} \/ arg = {0} THEN self_batch_size ELSE CHOOSE n \in arg : TRUE

\* chunk = calls[start : start + size]
Chunk(call_list, start, size) ==
    SubSeq(call_list, start + 1,
           IF start + size < Len(call_list) THEN start + size ELSE Len(call_list))

\* The batch endpoint answers a chunk with an ordered array holding one item
\* per call of the chunk.
ChunkPayloads(chunk) == [1..Len(chunk) -> RawItems]

batchFrame == << runVars, retryVars, pageVars, laterVars >>

\* batch_request(calls, batch_size=...) is entered: an empty list returns []
\* at once, a size below 1 raises ValueError.
Bt_Call ==
    /\ bt_pc = "idle"
    /\ \E c \in CallLists, a \in BatchSizeArgs,
          b \in {TestBatchSize, RunBatchSize} :
          /\ bt_calls' = c
          /\ batch_size' = b
          /\ IF c = << >>
             THEN /\ ClientLog(Line("meta_batch", "zero_calls", 0, << >>))
                  /\ bt_pc' = "returned"
                  /\ UNCHANGED bt_size
             ELSE /\ bt_size' = SizeOf(a, b)
                  /\ bt_pc' = IF SizeOf(a, b) < 1 THEN "value_error" ELSE "chunk"
                  /\ UNCHANGED logVars
    /\ UNCHANGED << batchFrame, bt_start, aggregated_results, bt_output,
                    bt_posts, bt_payloads, bt_answers >>

\* One turn of `for chunk_index, start in enumerate(range(0, len(calls),
\* size))`: the chunk is logged and POSTed; after the last chunk the
\* aggregated results are returned.
Bt_Chunk ==
    /\ bt_pc = "chunk"
    /\ IF bt_start >= Len(bt_calls)
       THEN /\ ClientLog(Line("meta_batch", "finished", Len(aggregated_results),
                              << >>))
            /\ bt_output' = aggregated_results
            /\ bt_pc' = "returned"
            /\ UNCHANGED bt_posts
       ELSE /\ ClientLog(Line("meta_batch", "chunk", bt_start, << >>))
            /\ bt_posts' = Append(bt_posts, Chunk(bt_calls, bt_start, bt_size))
            /\ bt_pc' = "post"
            /\ UNCHANGED bt_output
    /\ UNCHANGED << batchFrame, batch_size, bt_calls, bt_size, bt_start,
                    aggregated_results, bt_payloads, bt_answers >>

\* The results so far returned when the POST of a chunk fails.
Mut_PostFailureReturnsPartial ==
    /\ bt_pc = "post"
    /\ LET chunk == bt_posts[Len(bt_posts)] IN
       \/ /\ ClientLog(Line("meta_batch", "chunk_failed", bt_start, ErrorMessage))
          /\ bt_pc' = "returned"
          /\ bt_output' = aggregated_results
          /\ UNCHANGED << bt_start, aggregated_results, bt_payloads, bt_answers >>
       \/ /\ ClientLog(Line("meta_batch", "unexpected_format", bt_start, << >>))
          /\ bt_pc' = "raised"
          /\ UNCHANGED << bt_start, aggregated_results, bt_payloads, bt_answers,
                          bt_output >>
       \/ \E payload_list \in ChunkPayloads(chunk) :
             /\ ClientLog(Line("meta_batch", "chunk_completed", bt_start, << >>))
             /\ aggregated_results' =
                   aggregated_results \o NormalizeBatchResults(payload_list)
             /\ bt_payloads' = Append(bt_payloads, payload_list)
             /\ bt_answers' = bt_answers \cup
                   { << chunk[j], payload_list[j] >> : j \in 1..Len(chunk) }
             /\ bt_start' = bt_start + bt_size
             /\ bt_pc' = "chunk"
             /\ UNCHANGED bt_output
    /\ UNCHANGED << batchFrame, batch_size, bt_calls, bt_size, bt_posts >>

\* request_with_retry('POST', '/', data={'batch': json.dumps(chunk), ...}):
\* it raises MetaClientError (logged, raised again), or returns something
\* that is not a list (MetaClientError), or returns the list of raw items,
\* which is normalized and appended to aggregated_results.
Bt_Post ==
    /\ bt_pc = "post"
    /\ LET chunk == bt_posts[Len(bt_posts)] IN
       \/ /\ ClientLog(Line("meta_batch", "chunk_failed", bt_start, ErrorMessage))
          /\ bt_pc' = "raised"
          /\ UNCHANGED << bt_start, aggregated_results, bt_payloads, bt_answers >>
       \/ /\ ClientLog(Line("meta_batch", "unexpected_format", bt_start, << >>))
          /\ bt_pc' = "raised"
          /\ UNCHANGED << bt_start, aggregated_results, bt_payloads, bt_answers >>
       \/ \E payload_list \in ChunkPayloads(chunk) :
             /\ ClientLog(Line("meta_batch", "chunk_completed", bt_start, << >>))
             /\ aggregated_results' =
                   aggregated_results \o NormalizeBatchResults(payload_list)
             /\ bt_payloads' = Append(bt_payloads, payload_list)
             /\ bt_answers' = bt_answers \cup
                   { << chunk[j], payload_list[j] >> : j \in 1..Len(chunk) }
             /\ bt_start' = bt_start + bt_size
             /\ bt_pc' = "chunk"
    /\ UNCHANGED << batchFrame, batch_size, bt_calls, bt_size, bt_posts,
                    bt_output >>

\* A client bound to a SyncRun, as run() builds it, serving one batch_request.
\* The SyncLog writes of the batch succeed: a write that raises is swallowed
\* by _log and changes nothing in batch_request.
InitBatch ==
    /\ RunIdle
    /\ RetryIdle
    /\ PageIdle
    /\ BatchIdle
    /\ LaterIdle
    /\ log = << >>
    /\ log_failures = MaxLogFailures

NextBatch ==
    \/ Bt_Call
    \/ Bt_Chunk
    \/ Bt_Post

SpecBatch == InitBatch /\ [][NextBatch]_vars

\* ---------------------------------------------------------------------
\* MetaSyncOrchestrator: metric normalisation (_to_int, _to_decimal,
\* _extract_results_value, _normalize_metrics)
\* ---------------------------------------------------------------------

\* Bounds of the results values handed to _extract_results_value.
MaxEntries == 2
MaxValues == 2

\* A JSON scalar of a provider row: None, a str (its characters in order),
\* a bool, an int, or a float (n holds the float in tenths).
JNone == [kind |-> "None", n |-> 0, s |-> << >>]

JStr(chars) == [kind |-> "str", n |-> 0, s |-> chars]

JBool(b) == [kind |-> "bool", n |-> IF b THEN 1 ELSE 0, s |-> << >>]

JInt(k) == [kind |-> "int", n |-> k, s |-> << >>]

JFloat(tenths) == [kind |-> "float", n |-> tenths, s |-> << >>]

DigitChars == << "0", "1", "2", "3", "4", "5", "6", "7", "8", "9" >>

IsDigit(c) == \E d \in 1..Len(DigitChars) : DigitChars[d] = c

DigitValue(c) == (CHOOSE d \in 1..Len(DigitChars) : DigitChars[d] = c) - 1

AllDigits(cs) == \A i \in 1..Len(cs) : IsDigit(cs[i])

RECURSIVE DigitsValue(_)
DigitsValue(cs) ==
    IF cs = << >> THEN 0
    ELSE 10 * DigitsValue(SubSeq(cs, 1, Len(cs) - 1)) + DigitValue(cs[Len(cs)])

RECURSIVE Pow10(_)
Pow10(k) == IF k = 0 THEN 1 ELSE 10 * Pow10(k - 1)

\* str.strip(): the text without its leading and trailing blanks.
RECURSIVE Strip(_)
Strip(cs) ==
    IF cs = << >> THEN cs
    ELSE IF Head(cs) = " " THEN Strip(Tail(cs))
    ELSE IF cs[Len(cs)] = " " THEN Strip(SubSeq(cs, 1, Len(cs) - 1))
    ELSE cs

\* str.replace(c, ''): the text without the character c.
RECURSIVE Replace(_, _)
Replace(cs, c) ==
    IF cs = << >> THEN cs
    ELSE IF Head(cs) = c THEN Replace(Tail(cs), c)
    ELSE << Head(cs) >> \o Replace(Tail(cs), c)

\* str.lower() on the capital letters the modelled texts contain.
LowerChar(c) ==
    CASE c = "D" -> "d"
      [] c = "E" -> "e"
      [] c = "F" -> "f"
      [] c = "A" -> "a"
      [] c = "U" -> "u"
      [] c = "L" -> "l"
      [] c = "T" -> "t"
      [] OTHER -> c

Lower(cs) == [i \in 1..Len(cs) |-> LowerChar(cs[i])]

\* The digits before and after the point, read as a number.
ParseDigits(ip, fp) ==
    IF AllDigits(ip) /\ AllDigits(fp) /\ Len(ip) + Len(fp) > 0
    THEN [ok |-> TRUE, num |-> DigitsValue(ip \o fp), den |-> Pow10(Len(fp))]
    ELSE [ok |-> FALSE, num |-> 0, den |-> 1]

\* Position of the first point of the text (past its end if it has none).
DotAt(body) ==
    IF \E i \in 1..Len(body) : body[i] = "."
    THEN CHOOSE i \in 1..Len(body) :
             body[i] = "." /\ \A j \in 1..(i - 1) : body[j] # "."
    ELSE Len(body) + 1

ParseParts(body, dot) ==
    ParseDigits(SubSeq(body, 1, dot - 1), SubSeq(body, dot + 1, Len(body)))

ParseUnsigned(body) == ParseParts(body, DotAt(body))

Unsign(t) == IF t # << >> /\ Head(t) \in {"-", "+"} THEN Tail(t) ELSE t

Signed(t, p) ==
    IF t # << >> /\ Head(t) = "-" THEN [p EXCEPT !.num = 0 - p.num] ELSE p

ParseStripped(t) == Signed(t, ParseUnsigned(Unsign(t)))

\* float(text) and Decimal(text) on decimal literals: blanks around the text
\* are ignored, then an optional sign, digits and at most one point with at
\* least one digit overall.  ok is FALSE where Python raises ValueError or
\* InvalidOperation; otherwise the number is num / den.
ParseNumber(cs) == ParseStripped(Strip(cs))

\* int(x) of the number num / den (den > 0): truncation toward zero.
Trunc(num, den) == IF num >= 0 THEN num \div den ELSE 0 - ((0 - num) \div den)

Abs(x) == IF x >= 0 THEN x ELSE 0 - x

RECURSIVE Gcd(_, _)
Gcd(a, b) == IF b = 0 THEN a ELSE Gcd(b, a % b)

Reduce(num, den, g) == [num |-> num \div g, den |-> den \div g]

\* A Decimal, kept as the exact fraction num / den in lowest terms (den > 0).
Dec(num, den) == Reduce(num, den, Gcd(Abs(num), den))

DecAdd(a, b) == Dec(a.num * b.den + b.num * a.den, a.den * b.den)

\* int(float(text)), or 0 where float raises ValueError.
IntOrZero(f) == IF f.ok THEN Trunc(f.num, f.den) ELSE 0

\* _to_int
ToInt(value) ==
    IF value = JNone \/ value = JStr(<< >>) THEN 0
    ELSE IF value.kind = "bool" THEN value.n
    ELSE IF value.kind = "int" THEN value.n
    ELSE IF value.kind = "float" THEN Trunc(value.n, 10)
    ELSE IntOrZero(ParseNumber(Replace(value.s, ",")))

\* Decimal(text), or Decimal('0') where Decimal raises InvalidOperation.
DecOrZero(d) == IF d.ok THEN Dec(d.num, d.den) ELSE [num |-> 0, den |-> 1]

\* _to_decimal: Decimal(str(value)); str(True) is 'True', which is no number.
ToDecimal(value) ==
    IF value = JNone \/ value = JStr(<< >>) THEN [num |-> 0, den |-> 1]
    ELSE IF value.kind = "bool" THEN [num |-> 0, den |-> 1]
    ELSE IF value.kind = "int" THEN [num |-> value.n, den |-> 1]
    ELSE IF value.kind = "float" THEN Dec(value.n, 10)
    ELSE DecOrZero(ParseNumber(value.s))

\* The 'value' of a value-series item: a scalar (key = "") or a dict that
\* holds the scalar under one key.
Bare(v) == [key |-> "", v |-> v]

Keyed(key, v) == [key |-> key, v |-> v]

NoParsed == [ok |-> FALSE, n |-> 0]

Parsed(k) == [ok |-> TRUE, n |-> k]

\* int(float(text)), or None where float raises ValueError.
IntOrNone(f) == IF f.ok THEN Parsed(Trunc(f.num, f.den)) ELSE NoParsed

\* _extract_metric_value: None is NoParsed.
ExtractMetricValue(value) ==
    IF value.key = ""
    THEN IF value.v.kind \in {"bool", "int"} THEN Parsed(value.v.n)
         ELSE IF value.v.kind = "float" THEN Parsed(Trunc(value.v.n, 10))
         ELSE IF value.v.kind = "str" THEN IntOrNone(ParseNumber(value.v.s))
         ELSE NoParsed
    ELSE IF value.key \in {"value", "total_value", "count"}
         THEN Parsed(ToInt(value.v))
         ELSE NoParsed

\* The attribution_windows of an item: absent (or no list), or a list of
\* labels.
NoWindows == [is_list |-> FALSE, tags |-> << >>]

Windows(tags) == [is_list |-> TRUE, tags |-> tags]

DefaultLabel == << "d", "e", "f", "a", "u", "l", "t" >>

HasDefault(windows) ==
    /\ windows.is_list
    /\ \E i \in 1..Len(windows.tags) :
           Lower(Strip(windows.tags[i])) = DefaultLabel

\* An element of a 'values' list: a dict with 'value' and
\* 'attribution_windows', or something that is no dict.
Item(value, windows) == [is_dict |-> TRUE, value |-> value, windows |-> windows]

NonDictItem == [is_dict |-> FALSE, value |-> Bare(JNone), windows |-> NoWindows]

\* The 'values' of an entry: a list of items, or absent / no list.
NoValues == [is_list |-> FALSE, items |-> << >>]

Values(items) == [is_list |-> TRUE, items |-> items]

RECURSIVE SumOf(_, _)
SumOf(f, S) ==
    IF S = {} THEN 0
    ELSE LET x == CHOOSE x \in S : TRUE
         IN  f[x] + SumOf(f, S \ {x})

\* sum(default_window_values) if there are any, else sum(total_values).
PreferredSum(n, total_values, default_window_values) ==
    IF default_window_values # {}
    THEN SumOf(n, default_window_values)
    ELSE SumOf(n, total_values)

\* The loop of _extract_results_list_value over the parsed item values.
ListValue(items, parsed) ==
    PreferredSum([i \in 1..Len(items) |-> parsed[i].n],
                 {i \in 1..Len(items) : items[i].is_dict /\ parsed[i].ok},
                 {i \in 1..Len(items) :
                     /\ items[i].is_dict
                     /\ parsed[i].ok
                     /\ HasDefault(items[i].windows)})

\* _extract_results_list_value
ExtractResultsListValue(values) ==
    IF ~values.is_list THEN 0
    ELSE ListValue(values.items,
                   [i \in 1..Len(values.items) |->
                       ExtractMetricValue(values.items[i].value)])

\* An element of a results list: a dict with 'values' and/or 'value', or
\* something that is no dict.
ResultEntry(values, value) ==
    [is_dict |-> TRUE, values |-> values, value |-> value]

NonDictEntry == [is_dict |-> FALSE, values |-> NoValues, value |-> JNone]

\* The 'results' of a provider row: a list of entries, one dict, or a scalar.
ResultsList(entries) ==
    [kind |-> "list", entries |-> entries, entry |-> NonDictEntry,
     scalar |-> JNone]

ResultsDict(entry) ==
    [kind |-> "dict", entries |-> << >>, entry |-> entry, scalar |-> JNone]

ResultsScalar(v) ==
    [kind |-> "scalar", entries |-> << >>, entry |-> NonDictEntry,
     scalar |-> v]

\* Variant: only the default-tagged values of an entry count.
Mut_EntryValueDefaultOnly(entry) ==
    IF entry.values.is_list
    THEN LET items == entry.values.items
         IN  SumOf([i \in 1..Len(items) |->
                       ExtractMetricValue(items[i].value).n],
                   {i \in 1..Len(items) :
                       /\ items[i].is_dict
                       /\ ExtractMetricValue(items[i].value).ok
                       /\ HasDefault(items[i].windows)})
    ELSE ToInt(entry.value)

\* What one dict of the results contributes.
EntryValue(entry) ==
    IF entry.values.is_list
    THEN ExtractResultsListValue(entry.values)
    ELSE ToInt(entry.value)

RECURSIVE Flatten(_)
Flatten(entries) ==
    IF entries = << >> THEN << >>
    ELSE (IF Head(entries).is_dict /\ Head(entries).values.is_list
          THEN Head(entries).values.items
          ELSE << >>) \o Flatten(Tail(entries))

\* Variant: the default-window rule applied once to the values of all the
\* entries together.
Mut_ExtractResultsValueAcrossEntries(value) ==
    IF value.kind = "list"
    THEN ExtractResultsListValue(Values(Flatten(value.entries)))
         + SumOf([i \in 1..Len(value.entries) |->
                     IF value.entries[i].is_dict
                        /\ ~value.entries[i].values.is_list
                     THEN ToInt(value.entries[i].value)
                     ELSE 0],
                 1..Len(value.entries))
    ELSE IF value.kind = "dict" THEN EntryValue(value.entry)
    ELSE ToInt(value.scalar)

\* _extract_results_value
ExtractResultsValue(value) ==
    IF value.kind = "list"
    THEN SumOf([i \in 1..Len(value.entries) |->
                   IF value.entries[i].is_dict
                   THEN EntryValue(value.entries[i])
                   ELSE 0],
               1..Len(value.entries))
    ELSE IF value.kind = "dict" THEN EntryValue(value.entry)
    ELSE ToInt(value.scalar)

\* A provider insight row; a key the row lacks reads as None.
InsightRow(spend, impressions, reach, clicks, results) ==
    [spend |-> spend, impressions |-> impressions, reach |-> reach,
     clicks |-> clicks, results |-> results,
     ctr |-> JNone, cpm |-> JNone, cpc |-> JNone, frequency |-> JNone]

\* The ratios of _normalize_metrics: the provider's value, or the value
\* computed from the counters where the provider's is zero.
WithRatios(spend, impressions, reach, clicks, results, ctr, cpm, cpc, frequency) ==
    [spend |-> spend,
     impressions |-> impressions,
     reach |-> reach,
     clicks |-> clicks,
     results |-> results,
     ctr |-> IF impressions > 0 /\ ctr.num = 0
             THEN Dec(clicks * 100, impressions)
             ELSE ctr,
     cpm |-> IF impressions > 0 /\ cpm.num = 0
             THEN Dec(spend.num * 1000, spend.den * impressions)
             ELSE cpm,
     cpc |-> IF clicks > 0 /\ cpc.num = 0
             THEN Dec(spend.num, spend.den * clicks)
             ELSE cpc,
     frequency |-> IF reach > 0 /\ frequency.num = 0
                   THEN Dec(impressions, reach)
                   ELSE frequency]

\* _normalize_metrics
NormalizeMetrics(row) ==
    WithRatios(ToDecimal(row.spend), ToInt(row.impressions),
               ToInt(row.reach), ToInt(row.clicks),
               ExtractResultsValue(row.results), ToDecimal(row.ctr),
               ToDecimal(row.cpm), ToDecimal(row.cpc),
               ToDecimal(row.frequency))

\* ---- the rows the model hands to _normalize_metrics

SeqsUpTo(S, n) == UNION {[1..k -> S] : k \in 0..n}

Text7 == << "7" >>
Text2 == << "2" >>

\* Scalars a counter field of a provider row can hold.
RawCounters ==
    {JNone, JStr(<< >>), JStr(<< "a", "b", "c" >>), JInt(3), JInt(0 - 5),
     JStr(<< "4", "0" >>), JStr(<< "-", "5" >>),
     JStr(<< "1", ",", "0", "0", "0" >>), JStr(<< " ", "2", ".", "7" >>),
     JBool(TRUE), JFloat(0 - 27)}

RawSpends ==
    {JNone, JStr(<< "1", "0" >>), JStr(<< "2", ".", "5" >>), JInt(4),
     JStr(<< "1", ",", "5" >>), JBool(TRUE), JFloat(15)}

RawRatios == {JNone, JStr(<< >>), JStr(<< "0" >>), JStr(<< "1", ".", "5" >>)}

ItemValues ==
    {Bare(JStr(Text7)), Bare(JStr(Text2)), Bare(JInt(7)), Bare(JFloat(27)),
     Bare(JStr(<< "x" >>)), Bare(JNone), Keyed("value", JStr(<< "3" >>)),
     Keyed("other", JInt(3))}

WindowLists ==
    {NoWindows, Windows(<< DefaultLabel >>),
     Windows(<< << " ", "D", "e", "f", "a", "u", "l", "t" >> >>),
     Windows(<< << "7", "d" >> >>),
     Windows(<< << "7", "d" >>, DefaultLabel >>)}

AllItems ==
    {Item(v, NoWindows) : v \in ItemValues}
    \cup {Item(Bare(JStr(Text7)), w) : w \in WindowLists}
    \cup {Item(Bare(JStr(<< "x" >>)), Windows(<< DefaultLabel >>)), NonDictItem}

FewItems ==
    {Item(Bare(JStr(t)), w) :
        t \in {Text7, Text2}, w \in {NoWindows, Windows(<< DefaultLabel >>)}}

\* Entries with a values list of several items.
ListEntries ==
    {ResultEntry(Values(items), JNone) : items \in SeqsUpTo(FewItems, MaxValues)}

\* Entries with at most one value, entries without values list, non-dicts.
ShortEntries ==
    {ResultEntry(Values(<< >>), JNone)}
    \cup {ResultEntry(Values(<< i >>), JNone) : i \in FewItems}
    \cup {ResultEntry(NoValues, JStr(<< "3" >>)), NonDictEntry}

ResultsInputs ==
    {ResultsList(entries) : entries \in SeqsUpTo(ShortEntries, MaxEntries)}
    \cup {ResultsList(<< a, b >>) : a \in ListEntries, b \in ListEntries}
    \cup {ResultsList(<< ResultEntry(Values(items), JNone) >>) :
             items \in SeqsUpTo(AllItems, MaxValues)}
    \cup {ResultsDict(e) : e \in ListEntries \cup ShortEntries}
    \cup {ResultsScalar(v) : v \in RawCounters}

MetricRows ==
    {InsightRow(JStr(<< "1", "0" >>), i, r, c, ResultsScalar(JNone)) :
        i \in RawCounters, r \in RawCounters, c \in RawCounters}
    \cup {InsightRow(JStr(<< "1", "0" >>), JInt(3), JInt(3), JInt(3), res) :
             res \in ResultsInputs}
    \cup {[InsightRow(s, JInt(3), JInt(0), JInt(3), ResultsScalar(JNone))
              EXCEPT !.ctr = x, !.cpc = x, !.frequency = x] :
             s \in RawSpends, x \in RawRatios}

metricFrame ==
    << runVars, logVars, retryVars, pageVars, batchVars, insightVars,
       entityVars,
       chunkVars,
       igVars,
       pollVars,
       twoVars,
       ownerVars >>

\* _normalize_metrics(row)
Mx_Normalize ==
    /\ mx_pc = "input"
    /\ mx_metric' = NormalizeMetrics(mx_row)
    /\ mx_pc' = "done"
    /\ UNCHANGED << metricFrame, mx_row >>

InitMetrics ==
    /\ OwnerIdle
    /\ TwoIdle
    /\ PollIdle
    /\ IgIdle
    /\ ChunkIdle
    /\ RunIdle
    /\ RetryIdle
    /\ PageIdle
    /\ BatchIdle
    /\ log = << >>
    /\ log_failures = 0
    /\ mx_pc = "input"
    /\ mx_row \in MetricRows
    /\ mx_metric = << >>
    /\ InsightIdle
    /\ EntityIdle

NextMetrics == Mx_Normalize

SpecMetrics == InitMetrics /\ [][NextMetrics]_vars

\* ---------------------------------------------------------------------
\* MetaSyncOrchestrator.sync_ad_insights
\* ---------------------------------------------------------------------

\* Calls of sync_ad_insights in one behaviour (one per run).
MaxInsightCalls == 2

\* Dates are counted in whole months; Until is today's month.
Until == 6

\* The since of the 24-month backfill (scaled to two quarters) and of a
\* shorter days-override window.
WindowStarts == {Until - 5, Until - 2}

\* ad_cache: id_meta_ad -> (ad pk, ad set pk, campaign pk); the user's ads.
AdCache ==
    [ad_1 |-> [ad_pk |-> "ad_1", adset_pk |-> "adset_1", campaign_pk |-> "campaign_1"],
     ad_2 |-> [ad_pk |-> "ad_2", adset_pk |-> "adset_2", campaign_pk |-> "campaign_1"]]

\* The provider rows: the two of the unit test, and one without delivery.
RowA(ad, d) ==
    [ad_id |-> ad, date_start |-> d,
     row |-> InsightRow(JStr(<< "1", "0" >>), JStr(<< "1", "0", "0" >>),
                        JStr(<< "5", "0" >>), JStr(<< "2", "0" >>),
                        ResultsList(<< ResultEntry(Values(<<
                            Item(Bare(JStr(Text7)), Windows(<< DefaultLabel >>))
                        >>), JNone) >>))]

RowB(ad, d) ==
    [ad_id |-> ad, date_start |-> d,
     row |-> InsightRow(JStr(<< "5" >>), JStr(<< "5", "0" >>),
                        JStr(<< "2", "5" >>), JStr(<< "5" >>),
                        ResultsList(<< ResultEntry(Values(<<
                            Item(Bare(JStr(Text2)), Windows(<< DefaultLabel >>))
                        >>), JNone) >>))]

RowZ(ad, d) ==
    [ad_id |-> ad, date_start |-> d,
     row |-> InsightRow(JStr(<< "0" >>), JStr(<< "0" >>), JStr(<< "0" >>),
                        JStr(<< "0" >>), ResultsList(<< >>))]

\* What the provider holds for one date: nothing, a row for each ad, two
\* rows for the same ad, a row without delivery, a row of an unknown ad.
DayChoices(d) ==
    {<< >>,
     << RowA("ad_1", d), RowB("ad_2", d) >>,
     << RowA("ad_1", d), RowB("ad_1", d) >>,
     << RowZ("ad_1", d), RowA("ad_2", d) >>,
     << RowA("ad_x", d), RowB("ad_2", d) >>}

Sources == {a \o b : a \in DayChoices(Until - 4), b \in DayChoices(Until - 1)}

Min(a, b) == IF a <= b THEN a ELSE b

\* _iter_month_chunks(since, until, chunk_months=3)
RECURSIVE IterMonthChunks(_, _)
IterMonthChunks(current, until) ==
    IF current > until THEN << >>
    ELSE << [since |-> current, until |-> Min(current + 3 - 1, until)] >>
         \o IterMonthChunks(Min(current + 3 - 1, until) + 1, until)

\* The rows the provider lists for time_range = chunk, in its order.
RECURSIVE RowsIn(_, _)
RowsIn(rows, chunk) ==
    IF rows = << >> THEN << >>
    ELSE (IF chunk.since <= Head(rows).date_start
             /\ Head(rows).date_start <= chunk.until
          THEN << Head(rows) >>
          ELSE << >>) \o RowsIn(Tail(rows), chunk)

\* A daily row of a table, or an accumulator: its key and its metrics.
Daily(entity, created_at, metric) ==
    [entity |-> entity, created_at |-> created_at, metric |-> metric]

HasKey(table, entity, created_at) ==
    \E i \in 1..Len(table) :
        table[i].entity = entity /\ table[i].created_at = created_at

\* Variant: a row is inserted whether or not the key exists.
Mut_UpdateOrCreateAlwaysCreates(table, entity, created_at, defaults) ==
    Append(table, Daily(entity, created_at, defaults))

\* objects.update_or_create(<entity>=..., created_at=..., defaults=...)
UpdateOrCreate(table, entity, created_at, defaults) ==
    IF HasKey(table, entity, created_at)
    THEN [i \in 1..Len(table) |->
             IF table[i].entity = entity /\ table[i].created_at = created_at
             THEN Daily(entity, created_at, defaults)
             ELSE table[i]]
    ELSE Append(table, Daily(entity, created_at, defaults))

\* _empty_agg
EmptyAgg ==
    [spend |-> [num |-> 0, den |-> 1], impressions |-> 0, reach |-> 0,
     clicks |-> 0, results |-> 0,
     ctr |-> [num |-> 0, den |-> 1], cpm |-> [num |-> 0, den |-> 1],
     cpc |-> [num |-> 0, den |-> 1], frequency |-> [num |-> 0, den |-> 1]]

\* _sum_agg
SumAgg(left, right) ==
    [spend |-> DecAdd(left.spend, right.spend),
     impressions |-> left.impressions + right.impressions,
     reach |-> left.reach + right.reach,
     clicks |-> left.clicks + right.clicks,
     results |-> left.results + right.results,
     ctr |-> [num |-> 0, den |-> 1], cpm |-> [num |-> 0, den |-> 1],
     cpc |-> [num |-> 0, den |-> 1], frequency |-> [num |-> 0, den |-> 1]]

\* Variant: the accumulator is written as it is, its ratios not recomputed.
Mut_FinalizeAggSkipped(agg) == agg

\* _finalize_agg
FinalizeAgg(agg) ==
    [spend |-> agg.spend,
     impressions |-> agg.impressions,
     reach |-> agg.reach,
     clicks |-> agg.clicks,
     results |-> agg.results,
     ctr |-> IF agg.impressions > 0
             THEN Dec(agg.clicks * 100, agg.impressions)
             ELSE [num |-> 0, den |-> 1],
     cpm |-> IF agg.impressions > 0
             THEN Dec(agg.spend.num * 1000, agg.spend.den * agg.impressions)
             ELSE [num |-> 0, den |-> 1],
     cpc |-> IF agg.clicks > 0
             THEN Dec(agg.spend.num, agg.spend.den * agg.clicks)
             ELSE [num |-> 0, den |-> 1],
     frequency |-> IF agg.reach > 0
                   THEN Dec(agg.impressions, agg.reach)
                   ELSE [num |-> 0, den |-> 1]]

\* agg[key] = self._sum_agg(agg[key], metric) on a defaultdict(_empty_agg)
AggAdd(agg, entity, created_at, metric) ==
    IF HasKey(agg, entity, created_at)
    THEN [i \in 1..Len(agg) |->
             IF agg[i].entity = entity /\ agg[i].created_at = created_at
             THEN Daily(entity, created_at, SumAgg(agg[i].metric, metric))
             ELSE agg[i]]
    ELSE Append(agg, Daily(entity, created_at, SumAgg(EmptyAgg, metric)))

\* for key, metric in agg.items(): update_or_create(..., _finalize_agg(metric))
RECURSIVE UpsertAll(_, _)
UpsertAll(table, agg) ==
    IF agg = << >> THEN table
    ELSE UpsertAll(UpdateOrCreate(table, Head(agg).entity,
                                  Head(agg).created_at,
                                  FinalizeAgg(Head(agg).metric)),
                   Tail(agg))

insightFrame ==
    << runVars, retryVars, pageVars, batchVars, metricVars, entityVars,
       chunkVars,
       igVars,
       pollVars,
       twoVars,
       ownerVars >>

tableVars == << ad_insights, adset_insights, campaign_insights >>

\* sync_ad_insights(since, until) is entered by a new run: the accumulators
\* and counters are fresh, the tables are what earlier runs left.
In_Call ==
    /\ in_pc \in {"idle", "returned", "raised_window", "raised_except"}
    /\ in_calls < MaxInsightCalls
    /\ \E since \in WindowStarts : in_chunks' = IterMonthChunks(since, Until)
    /\ in_chunk' = 1
    /\ in_rows' = << >>
    /\ in_pos' = 0
    /\ adset_agg' = << >>
    /\ campaign_agg' = << >>
    /\ rows_seen' = 0
    /\ ad_upserts' = 0
    /\ insight_errors' = 0
    /\ in_calls' = in_calls + 1
    /\ in_processed' = << >>
    /\ in_failed' = {}
    /\ in_fetched' = {}
    /\ in_before' = tableVars
    /\ in_prev' = [clean |-> in_pc = "returned" /\ in_failed = {},
                   chunks |-> in_chunks]
    /\ in_pc' = "window"
    /\ log' = << >>
    /\ UNCHANGED << insightFrame, log_failures, tableVars, in_source >>

\* self._log('ad_insights', 'Processando janela trimestral ...'), not
\* guarded; then the account's listing of the window starts.
In_LogWindow ==
    /\ in_pc = "window"
    /\ \E ok \in WriteOutcomes :
          /\ SyncLogCreate(Entry("ad_insights", "janela", "window"), ok)
          /\ in_pc' = IF ok THEN "fetch" ELSE "raised_window"
          /\ in_rows' = IF ok THEN RowsIn(in_source, in_chunks[in_chunk])
                        ELSE in_rows
          /\ in_fetched' = IF ok THEN in_fetched \cup {in_chunk} ELSE in_fetched
    /\ in_pos' = 0
    /\ UNCHANGED << insightFrame, tableVars, in_source, in_chunks, in_chunk,
                    adset_agg, campaign_agg, rows_seen, ad_upserts,
                    insight_errors, in_calls, in_processed, in_failed,
                    in_before, in_prev >>

\* The body of the row loop for a row of a known ad.
In_Upsert(ad_ref, created_at, metric) ==
    /\ ad_insights' =
           UpdateOrCreate(ad_insights, ad_ref.ad_pk, created_at, metric)
    /\ ad_upserts' = ad_upserts + 1
    /\ adset_agg' = AggAdd(adset_agg, ad_ref.adset_pk, created_at, metric)
    /\ campaign_agg' =
           AggAdd(campaign_agg, ad_ref.campaign_pk, created_at, metric)
    /\ in_processed' =
           Append(in_processed,
                  [ad_ref |-> ad_ref, created_at |-> created_at,
                   metric |-> metric])

\* paginate yields the next insight row of the window.
In_Row ==
    /\ in_pc = "fetch"
    /\ in_pos < Len(in_rows)
    /\ in_pos' = in_pos + 1
    /\ rows_seen' = rows_seen + 1
    /\ IF in_rows[in_pos + 1].ad_id \in DOMAIN AdCache
       THEN In_Upsert(AdCache[in_rows[in_pos + 1].ad_id],
                      in_rows[in_pos + 1].date_start,
                      NormalizeMetrics(in_rows[in_pos + 1].row))
       ELSE UNCHANGED << ad_insights, ad_upserts, adset_agg, campaign_agg,
                         in_processed >>
    /\ UNCHANGED << insightFrame, logVars, adset_insights, campaign_insights,
                    in_pc, in_source, in_chunks, in_chunk, in_rows,
                    insight_errors, in_calls, in_failed, in_fetched,
                    in_before, in_prev >>

\* Leaving the (account, window) pair: the next window, or the rollup.
In_Advance ==
    /\ in_chunk' = IF in_chunk < Len(in_chunks) THEN in_chunk + 1 ELSE in_chunk
    /\ in_pc' = IF in_chunk < Len(in_chunks) THEN "window" ELSE "finalize"

\* paginate is exhausted.
In_FetchEnd ==
    /\ in_pc = "fetch"
    /\ in_pos = Len(in_rows)
    /\ In_Advance
    /\ UNCHANGED << insightFrame, logVars, tableVars, in_source, in_chunks,
                    in_rows, in_pos, adset_agg, campaign_agg, rows_seen,
                    ad_upserts, insight_errors, in_calls, in_processed,
                    in_failed, in_fetched, in_before, in_prev >>

\* paginate raises MetaClientError on the request of a page:
\* except MetaClientError: insight_errors += 1
In_FetchError ==
    /\ in_pc = "fetch"
    /\ insight_errors' = insight_errors + 1
    /\ in_failed' = in_failed \cup {in_chunk}
    /\ in_pc' = "except"
    /\ UNCHANGED << insightFrame, logVars, tableVars, in_source, in_chunks,
                    in_chunk, in_rows, in_pos, adset_agg, campaign_agg,
                    rows_seen, ad_upserts, in_calls, in_processed,
                    in_fetched, in_before, in_prev >>

\* self._log('ad_insights', 'Falha ao buscar insights ...') in the except
\* clause, not guarded; then continue.
In_ExceptLog ==
    /\ in_pc = "except"
    /\ \E ok \in WriteOutcomes :
          /\ SyncLogCreate(Entry("ad_insights", "falha", "window"), ok)
          /\ IF ok
             THEN In_Advance
             ELSE in_pc' = "raised_except" /\ UNCHANGED in_chunk
    /\ UNCHANGED << insightFrame, tableVars, in_source, in_chunks, in_rows,
                    in_pos, adset_agg, campaign_agg, rows_seen, ad_upserts,
                    insight_errors, in_calls, in_processed, in_failed,
                    in_fetched, in_before, in_prev >>

\* The ad-set and campaign rows are written from the accumulators and the
\* stage returns its counters.
In_Finalize ==
    /\ in_pc = "finalize"
    /\ adset_insights' = UpsertAll(adset_insights, adset_agg)
    /\ campaign_insights' = UpsertAll(campaign_insights, campaign_agg)
    /\ in_pc' = "returned"
    /\ UNCHANGED << insightFrame, logVars, ad_insights, in_source, in_chunks,
                    in_chunk, in_rows, in_pos, adset_agg, campaign_agg,
                    rows_seen, ad_upserts, insight_errors, in_calls,
                    in_processed, in_failed, in_fetched, in_before, in_prev >>

InitInsights ==
    /\ OwnerIdle
    /\ TwoIdle
    /\ PollIdle
    /\ IgIdle
    /\ ChunkIdle
    /\ RunIdle
    /\ RetryIdle
    /\ PageIdle
    /\ BatchIdle
    /\ MetricIdle
    /\ EntityIdle
    /\ log = << >>
    /\ log_failures = 0
    /\ in_pc = "idle"
    /\ in_source \in Sources
    /\ in_chunks = << >>
    /\ in_chunk = 0
    /\ in_rows = << >>
    /\ in_pos = 0
    /\ ad_insights = << >>
    /\ adset_insights = << >>
    /\ campaign_insights = << >>
    /\ adset_agg = << >>
    /\ campaign_agg = << >>
    /\ rows_seen = 0
    /\ ad_upserts = 0
    /\ insight_errors = 0
    /\ in_calls = 0
    /\ in_processed = << >>
    /\ in_failed = {}
    /\ in_fetched = {}
    /\ in_before = << << >>, << >>, << >> >>
    /\ in_prev = [clean |-> FALSE, chunks |-> << >>]

NextInsights ==
    \/ In_Call
    \/ In_LogWindow
    \/ In_Row
    \/ In_FetchEnd
    \/ In_FetchError
    \/ In_ExceptLog
    \/ In_Finalize

SpecInsights == InitInsights /\ [][NextInsights]_vars

\* ---------------------------------------------------------------------
\* MetaSyncOrchestrator.sync_campaigns / sync_adsets / sync_ads
\* ---------------------------------------------------------------------
MaxEntityPages == 2     \* pages the provider holds for one account's listing

EntityStages == {"sync_campaigns", "sync_adsets", "sync_ads"}

\* The stages whose rows name a parent that is looked up in a map.
ChildStages == {"sync_adsets", "sync_ads"}

\* The 'entidade' the stage logs under.
EntityLabel(stage) ==
    CASE stage = "sync_campaigns" -> "campaigns"
      [] stage = "sync_adsets" -> "adsets"
      [] OTHER -> "ads"

\* A row of a listing: its id and its parent id ('' for a missing or blank
\* field, after str(... or '').strip()).
ChildRow(id, parent) == [id |-> id, parent |-> parent]

\* The 'data' lists the provider answers with.
ListingChoices ==
    { << >>,
      << ChildRow("c1", "p1") >>,
      << ChildRow("c1", "p1"), ChildRow("c2", "px") >>,
      << ChildRow("", "p1"), ChildRow("c3", "p2"), ChildRow("c1", "") >> }

\* The parsed body of a listing: its data and whether paging.next is there.
Listing(data, has_next) == [data |-> data, has_next |-> has_next]

\* The raw batch items the provider answers with for the listing of one
\* account, page `p` of the listing.
EntityItems(p) ==
    { RawItem({200}, DictValue(Listing(d, FALSE)), << >>) : d \in ListingChoices }
    \cup (IF p < MaxEntityPages
          THEN {RawItem({200},
                        DictValue(Listing(<< ChildRow("c1", "p1") >>, TRUE)),
                        << >>)}
          ELSE {})
    \cup { RawItem({200}, NoneValue, << >>),
           RawItem({}, DictValue(Listing(<< ChildRow("c1", "p1") >>, FALSE)),
                   << >>),
           RawItem({302}, DictValue(Listing(<< ChildRow("c2", "p1") >>, FALSE)),
                   << >>),
           RawItem({400},
                   DictValue(Listing(<< ChildRow("c3", "p1") >>,
                                     p < MaxEntityPages)),
                   << >>),
           NullItem }

\* An element of batch_requests: the account and the page of its listing the
\* relative_url asks for.
RequestMeta(account, p) == [account |-> account, page |-> p]

\* batch_requests = [... for account in accounts]
BatchRequests(accounts) ==
    [i \in 1..Len(accounts) |-> RequestMeta(accounts[i], 1)]

\* What the loop body does with a row: store it, count it as skipped, or
\* pass over it.
Mut_RowFateMissingIdPassedOver(stage, row, parents) ==
    IF row.id = "" THEN "pass"
    ELSE IF stage \in ChildStages /\ row.parent \notin parents THEN "skip"
    ELSE "store"

RowFate(stage, row, parents) ==
    IF stage = "sync_campaigns"
    THEN (IF row.id = "" THEN "pass" ELSE "store")
    ELSE (IF row.id = "" \/ row.parent \notin parents THEN "skip" ELSE "store")

\* Model.objects.update_or_create(id_meta_...=id, defaults={parent ...}) on
\* a table with one row per id.
UpsertChild(table, row) == {r \in table : r.id # row.id} \cup {row}

\* The record kept of a result handed to the loop body.
Handled(meta, result, answer_to) ==
    [account |-> meta.account, page |-> meta.page, answer_to |-> answer_to,
     status_code |-> result.status_code,
     next |-> result.body.kind = "dict" /\ result.body.v.has_next,
     rows |-> IF result.body.kind = "dict" THEN result.body.v.data ELSE << >>,
     stored |-> << >>, skipped |-> << >>, counted |-> FALSE, logged |-> FALSE]

\* The follow-up request appended whatever the status of the result.
Mut_HasNextPageAnyStatus(result) ==
    /\ result.body.kind = "dict"
    /\ result.body.v.has_next

\* _next_page_relative_url(...) is not None: the body carries paging.next.
HasNextPage(result) ==
    /\ result.status_code < 400
    /\ result.body.kind = "dict"
    /\ result.body.v.has_next

\* zip(current_chunk, results) where results are the normalised items of the
\* payload: the provider answers call j with items[j] and the array it
\* returns leaves out the item at position `drop` (0: none is left out).
ZipChunk(chunk, items, drop) ==
    [i \in 1..(Len(items) - (IF drop = 0 THEN 0 ELSE 1)) |->
        [meta |-> chunk[i],
         result |-> NormalizeItem(items[IF drop = 0 \/ i < drop
                                        THEN i ELSE i + 1]),
         answer_to |-> chunk[IF drop = 0 \/ i < drop THEN i ELSE i + 1]]]

entityFrame ==
    << runVars, retryVars, pageVars, batchVars, metricVars, insightVars,
       chunkVars,
       igVars,
       pollVars,
       twoVars,
       ownerVars >>

entityInputs == << en_stage, en_accounts, en_parents, en_batch_size >>

entityCounters == << en_total, en_skipped, en_errors >>

\* The stage function is entered: the parent map was read, batch_requests
\* is built; with no account the stage returns its zero counters.
En_Call ==
    /\ en_pc = "idle"
    /\ en_pending' = BatchRequests(en_accounts)
    /\ en_pc' = IF en_accounts = << >> THEN "returned" ELSE "log_start"
    /\ UNCHANGED << entityFrame, logVars, entityInputs, entityCounters,
                    en_chunk, en_pos, en_rows, en_cur, en_store, en_done,
                    en_issued, en_rounds, en_enq >>

\* self._log(entity, 'Extraindo ... em batch ...'), not guarded.
En_LogStart ==
    /\ en_pc = "log_start"
    /\ \E ok \in WriteOutcomes :
          /\ SyncLogCreate(Entry(EntityLabel(en_stage), "extraindo", ""), ok)
          /\ en_pc' = IF ok THEN "pending" ELSE "raised_log"
    /\ UNCHANGED << entityFrame, entityInputs, entityCounters, en_pending,
                    en_chunk, en_pos, en_rows, en_cur, en_store, en_done,
                    en_issued, en_rounds, en_enq >>

\* _iter_batch_paginated_requests: while pending: the next chunk is taken
\* and client.batch_request(calls) returns one normalised result per call.
En_Batch ==
    /\ en_pc = "pending"
    /\ en_pending # << >>
    /\ \E items \in [1..Min(en_batch_size, Len(en_pending)) ->
                        UNION {EntityItems(p) : p \in 1..MaxEntityPages + 1}],
          drop \in 0..Min(en_batch_size, Len(en_pending)) :
          /\ \A i \in DOMAIN items : items[i] \in EntityItems(en_pending[i].page)
          /\ en_chunk' = ZipChunk(en_pending, items, drop)
    /\ en_pending' = SubSeq(en_pending, Min(en_batch_size, Len(en_pending)) + 1,
                            Len(en_pending))
    /\ en_issued' = en_issued + Min(en_batch_size, Len(en_pending))
    /\ en_rounds' = Append(en_rounds,
                           SubSeq(en_pending, 1,
                                  Min(en_batch_size, Len(en_pending))))
    /\ en_pos' = 1
    /\ en_pc' = "zip"
    /\ UNCHANGED << entityFrame, logVars, entityInputs, entityCounters,
                    en_rows, en_cur, en_store, en_done, en_enq >>

\* client.batch_request raises MetaClientError for the chunk: nothing
\* catches it in the generator or in the stage.
En_BatchError ==
    /\ en_pc = "pending"
    /\ en_pending # << >>
    /\ en_issued' = en_issued + Min(en_batch_size, Len(en_pending))
    /\ en_rounds' = Append(en_rounds,
                           SubSeq(en_pending, 1,
                                  Min(en_batch_size, Len(en_pending))))
    /\ en_pc' = "raised_client"
    /\ UNCHANGED << entityFrame, logVars, entityInputs, entityCounters,
                    en_pending, en_chunk, en_pos, en_rows, en_cur, en_store,
                    en_done, en_enq >>

\* for request_meta, result in zip(current_chunk, results): the follow-up
\* request of a listing with a next page is appended to pending, the pair is
\* yielded, and the loop body of the stage tests status_code >= 400 and the
\* type of the body.
En_Yield ==
    /\ en_pc = "zip"
    /\ en_pos <= Len(en_chunk)
    /\ en_pending' =
          IF HasNextPage(en_chunk[en_pos].result)
          THEN Append(en_pending,
                      RequestMeta(en_chunk[en_pos].meta.account,
                                  en_chunk[en_pos].meta.page + 1))
          ELSE en_pending
    /\ en_enq' =
          IF HasNextPage(en_chunk[en_pos].result)
          THEN Append(en_enq,
                      [request |-> RequestMeta(en_chunk[en_pos].meta.account,
                                               en_chunk[en_pos].meta.page + 1),
                       queue |-> en_pending,
                       round |-> Len(en_rounds)])
          ELSE en_enq
    /\ IF en_chunk[en_pos].result.status_code >= 400
       THEN /\ en_errors' = en_errors + 1
            /\ en_cur' = [Handled(en_chunk[en_pos].meta,
                                  en_chunk[en_pos].result,
                                  en_chunk[en_pos].answer_to)
                             EXCEPT !.counted = TRUE]
            /\ en_rows' = << >>
            /\ en_pc' = "error_log"
       ELSE /\ en_errors' = en_errors
            /\ en_cur' = Handled(en_chunk[en_pos].meta,
                                 en_chunk[en_pos].result,
                                 en_chunk[en_pos].answer_to)
            /\ en_rows' = IF en_chunk[en_pos].result.body.kind = "dict"
                          THEN en_chunk[en_pos].result.body.v.data
                          ELSE << >>
            /\ en_pc' = "rows"
    /\ UNCHANGED << entityFrame, logVars, entityInputs, en_total, en_skipped,
                    en_chunk, en_pos, en_store, en_done, en_issued,
                    en_rounds >>

\* self._log(entity, 'Falha no batch de ... para conta ...: status=...'),
\* not guarded; then continue.
En_ErrorLog ==
    /\ en_pc = "error_log"
    /\ \E ok \in WriteOutcomes :
          /\ SyncLogCreate(Entry(EntityLabel(en_stage), "falha",
                                 en_cur.account), ok)
          /\ en_pc' = IF ok THEN "zip" ELSE "raised_log"
          /\ en_done' = Append(en_done, [en_cur EXCEPT !.logged = ok])
          /\ en_pos' = IF ok THEN en_pos + 1 ELSE en_pos
    /\ UNCHANGED << entityFrame, entityInputs, entityCounters, en_pending,
                    en_chunk, en_rows, en_cur, en_store, en_issued, en_rounds, en_enq >>

\* for item in body.get('data') or []: one row is stored, counted as
\* skipped, or passed over.
En_Row ==
    /\ en_pc = "rows"
    /\ en_rows # << >>
    /\ en_rows' = Tail(en_rows)
    /\ CASE RowFate(en_stage, Head(en_rows), en_parents) = "store" ->
              /\ en_store' = UpsertChild(en_store, Head(en_rows))
              /\ en_total' = en_total + 1
              /\ en_cur' = [en_cur EXCEPT
                               !.stored = Append(@, Head(en_rows))]
              /\ UNCHANGED en_skipped
         [] RowFate(en_stage, Head(en_rows), en_parents) = "skip" ->
              /\ en_skipped' = en_skipped + 1
              /\ en_cur' = [en_cur EXCEPT
                               !.skipped = Append(@, Head(en_rows))]
              /\ UNCHANGED << en_store, en_total >>
         [] OTHER ->
              UNCHANGED << en_store, en_total, en_skipped, en_cur >>
    /\ UNCHANGED << entityFrame, logVars, entityInputs, en_errors, en_pending,
                    en_chunk, en_pos, en_pc, en_done, en_issued, en_rounds, en_enq >>

\* The rows of the result are exhausted (or its body is not a dict): the
\* generator is resumed for the next pair.
En_ResultDone ==
    /\ en_pc = "rows"
    /\ en_rows = << >>
    /\ en_done' = Append(en_done, en_cur)
    /\ en_pos' = en_pos + 1
    /\ en_pc' = "zip"
    /\ UNCHANGED << entityFrame, logVars, entityInputs, entityCounters,
                    en_pending, en_chunk, en_rows, en_cur, en_store,
                    en_issued, en_rounds, en_enq >>

\* The chunk is exhausted: back to `while pending`.
En_ChunkDone ==
    /\ en_pc = "zip"
    /\ en_pos > Len(en_chunk)
    /\ en_pc' = "pending"
    /\ UNCHANGED << entityFrame, logVars, entityInputs, entityCounters,
                    en_pending, en_chunk, en_pos, en_rows, en_cur, en_store,
                    en_done, en_issued, en_rounds, en_enq >>

\* pending is empty: the stage returns its counters.
En_Return ==
    /\ en_pc = "pending"
    /\ en_pending = << >>
    /\ en_pc' = "returned"
    /\ UNCHANGED << entityFrame, logVars, entityInputs, entityCounters,
                    en_pending, en_chunk, en_pos, en_rows, en_cur, en_store,
                    en_done, en_issued, en_rounds, en_enq >>

InitEntities ==
    /\ OwnerIdle
    /\ TwoIdle
    /\ PollIdle
    /\ IgIdle
    /\ ChunkIdle
    /\ RunIdle
    /\ RetryIdle
    /\ PageIdle
    /\ BatchIdle
    /\ MetricIdle
    /\ InsightIdle
    /\ log = << >>
    /\ log_failures = MaxLogFailures - 1
    /\ en_pc = "idle"
    /\ en_stage \in EntityStages
    /\ en_accounts \in {<< >>, << "act_1", "act_2" >>}
    /\ en_parents \in {{}, {"p1"}, {"p1", "p2"}}
    /\ en_pending = << >>
    /\ en_chunk = << >>
    /\ en_pos = 0
    /\ en_rows = << >>
    /\ en_cur = << >>
    /\ en_store = {}
    /\ en_total = 0
    /\ en_skipped = 0
    /\ en_errors = 0
    /\ en_done = << >>
    /\ en_issued = 0
    /\ en_batch_size \in {1, RunBatchSize}
    /\ en_rounds = << >>
    /\ en_enq = << >>

NextEntities ==
    \/ En_Call
    \/ En_LogStart
    \/ En_Batch
    \/ En_BatchError
    \/ En_Yield
    \/ En_ErrorLog
    \/ En_Row
    \/ En_ResultDone
    \/ En_ChunkDone
    \/ En_Return

SpecEntities == InitEntities /\ [][NextEntities]_vars

\* ---------------------------------------------------------------------
\* datetime.date arithmetic and MetaSyncOrchestrator._iter_month_chunks
\* ---------------------------------------------------------------------
\* A date is its day number (days since 1970-01-01), so that date +
\* timedelta(days=n) is addition and the order of dates is <=.

\* date(y, m, d) as a day number (proleptic Gregorian calendar).
DayNumber(y, m, d) ==
    ((y - (IF m <= 2 THEN 1 ELSE 0)) \div 400) * 146097
    + ((y - (IF m <= 2 THEN 1 ELSE 0)) % 400) * 365
    + ((y - (IF m <= 2 THEN 1 ELSE 0)) % 400) \div 4
    - ((y - (IF m <= 2 THEN 1 ELSE 0)) % 400) \div 100
    + (153 * (IF m > 2 THEN m - 3 ELSE m + 9) + 2) \div 5
    + d - 1 - 719468

\* calendar.monthrange(year, month)[1]
DaysInMonth(year, month) ==
    IF month = 2
    THEN (IF year % 4 = 0 /\ (year % 100 # 0 \/ year % 400 = 0)
          THEN 29 ELSE 28)
    ELSE IF month \in {4, 6, 9, 11} THEN 30 ELSE 31

\* The year of a day number: the year whose 1 January is the last one not
\* after it.
YearOf(z) ==
    CHOOSE y \in ((z \div 366) + 1969)..((z \div 365) + 1971) :
        DayNumber(y, 1, 1) <= z /\ z < DayNumber(y + 1, 1, 1)

MonthOf(z, y) ==
    CHOOSE m \in 1..12 :
        /\ DayNumber(y, m, 1) <= z
        /\ z < DayNumber(y, m, 1) + DaysInMonth(y, m)

\* .year, .month, .day of a date
Civil(z) ==
    [year |-> YearOf(z),
     month |-> MonthOf(z, YearOf(z)),
     day |-> z - DayNumber(YearOf(z), MonthOf(z, YearOf(z)), 1) + 1]

\* date(year, month, min(day, monthrange(year, month)[1])) for the month
\* with index month_idx = year * 12 + (month - 1).
ClampedDate(month_idx, day) ==
    DayNumber(month_idx \div 12, (month_idx % 12) + 1,
              Min(day, DaysInMonth(month_idx \div 12, (month_idx % 12) + 1)))

\* The month shift applied with the day kept, unclamped.
UnclampedShift(c, months) ==
    DayNumber((c.year * 12 + (c.month - 1) + months) \div 12,
              ((c.year * 12 + (c.month - 1) + months) % 12) + 1, c.day)

ShiftMonths(c, months) ==
    ClampedDate(c.year * 12 + (c.month - 1) + months, c.day)

Mut_AddMonthsUnclamped(base_date, months) ==
    UnclampedShift(Civil(base_date), months)

\* _add_months(base_date, months)
AddMonths(base_date, months) == ShiftMonths(Civil(base_date), months)

\* _subtract_months(base_date, months)
SubtractMonths(base_date, months) == ShiftMonths(Civil(base_date), 0 - months)

\* _iter_month_chunks(since, until, chunk_months): the windows it yields.
RECURSIVE MonthChunks(_, _, _)
MonthChunks(current, until, chunk_months) ==
    IF current <= until
    THEN << << current, Min(AddMonths(current, chunk_months) - 1, until) >> >>
         \o MonthChunks(Min(AddMonths(current, chunk_months) - 1, until) + 1,
                        until, chunk_months)
    ELSE << >>

SinceSpread == 75       \* consecutive since dates examined from each base

\* The since dates: runs of days over ends of months, one of them before a
\* leap February.
ChunkSinces ==
    {DayNumber(2025, 11, 20) + k : k \in 0..SinceSpread}
    \cup {DayNumber(2023, 11, 25) + k : k \in 0..SinceSpread}

\* The until dates for a since date: before it, equal to it, within the
\* first window, and several windows later.
ChunkUntils(since) ==
    {since - 1, since, since + 45, since + 92, since + 257}

chunkFrame ==
    << runVars, logVars, retryVars, pageVars, batchVars, metricVars,
       insightVars, entityVars,
       igVars,
       pollVars,
       twoVars,
       ownerVars >>

\* list(self._iter_month_chunks(since, until, chunk_months=3))
Ch_IterMonthChunks ==
    /\ ch_pc = "input"
    /\ ch_chunks' = MonthChunks(ch_since, ch_until, 3)
    /\ ch_pc' = "done"
    /\ UNCHANGED << chunkFrame, ch_since, ch_until >>

InitChunks ==
    /\ OwnerIdle
    /\ TwoIdle
    /\ PollIdle
    /\ IgIdle
    /\ RunIdle
    /\ RetryIdle
    /\ PageIdle
    /\ BatchIdle
    /\ MetricIdle
    /\ InsightIdle
    /\ EntityIdle
    /\ log = << >>
    /\ log_failures = 0
    /\ ch_pc = "input"
    /\ \/ ch_since \in ChunkSinces /\ ch_until \in ChunkUntils(ch_since)
       \/ ch_since = DayNumber(2026, 1, 1) /\ ch_until = DayNumber(2026, 9, 15)
    /\ ch_chunks = << >>

NextChunks == Ch_IterMonthChunks

SpecChunks == InitChunks /\ [][NextChunks]_vars

\* ---------------------------------------------------------------------
\* MetaSyncOrchestrator._fetch_instagram_account_insights
\* ---------------------------------------------------------------------
Max(a, b) == IF a >= b THEN a ELSE b

Range(seq) == {seq[i] : i \in 1..Len(seq)}

\* One window for the whole range.
Mut_DayChunksSingleWindow(current, until, max_span_days) ==
    IF current <= until THEN << << current, until >> >> ELSE << >>

\* _iter_day_chunks(since, until, max_span_days): the windows it yields.
RECURSIVE DayChunks(_, _, _)
DayChunks(current, until, max_span_days) ==
    IF current <= until
    THEN << << current, Min(current + max_span_days, until) >> >>
         \o DayChunks(Min(current + max_span_days, until) + 1, until,
                      max_span_days)
    ELSE << >>

\* metrics_regular, metrics_total_value and metrics, in list order.
MetricsRegular == << "reach" >>

MetricsTotalValue ==
    << "views", "content_views", "profile_views", "accounts_engaged",
       "follows_and_unfollows" >>

Metrics == MetricsRegular \o MetricsTotalValue \o << "follower_count" >>

\* The two (metric_group, extra_params) pairs of the grouped loop.
MetricGroups ==
    << [metrics |-> MetricsRegular, total_value |-> FALSE],
       [metrics |-> MetricsTotalValue, total_value |-> TRUE] >>

\* A request_with_retry call on '<ig_id>/insights'.
IgRequest(kind, metrics, total_value, window) ==
    [kind |-> kind, metrics |-> metrics, total_value |-> total_value,
     since |-> window[1], until |-> window[2]]

\* min_allowed_since = _subtract_months(today, 24) + timedelta(days=2)
MinAllowedSince(today) == SubtractMonths(today, 24) + 2

\* follower_until and follower_since with the guard one day later.
Mut_FollowerWindowYesterday(eff_since, until, today) ==
    << Max(eff_since, Min(until, today - 1) - 27), Min(until, today - 1) >>

\* (follower_since, follower_until)
FollowerWindow(eff_since, until, today) ==
    << Max(eff_since, Min(until, today - 2) - 27), Min(until, today - 2) >>

\* (retry_since, retry_until)
RetryWindow(eff_since, today) ==
    << Max(eff_since, today - 2 - 7), today - 2 >>

\* str(exc).lower() of a rejection, as the phrases it holds.
RejectedLast30Days ==
    {"follower_count", "last 30 days excluding the current day"}

RejectedLast30DaysOtherMetric == {"last 30 days excluding the current day"}

RejectedOther == {"unsupported get request"}

\* supports_last_30_days_error
SupportsLast30DaysError(exc_message) ==
    /\ "follower_count" \in exc_message
    /\ "last 30 days excluding the current day" \in exc_message

\* How the provider answers: per kind of request, with the metrics asked
\* for ("data"), with an empty data list ("empty"), or with a rejection that
\* request_with_retry turns into MetaClientError.
Providers ==
    [regular : {"data", "empty", "error"},
     total_value : {"data", "empty", "error"},
     single : {"data", "empty", "error"},
     follower : {{"data"}, RejectedLast30Days, RejectedLast30DaysOtherMetric,
                 RejectedOther},
     retry : {"data", "error"}]

\* The (since, until) arguments: the ranges of the unit tests, ranges that
\* end near the two-year limit, and short ranges ending today or earlier.
IgRanges(today) ==
    { << DayNumber(2024, 6, 1), today >>,
      << DayNumber(2023, 1, 1), DayNumber(2024, 3, 30) >>,
      << DayNumber(2023, 1, 1), DayNumber(2024, 3, 5) >>,
      << DayNumber(2020, 1, 1), DayNumber(2023, 12, 31) >>,
      << today - 7, today >>,
      << today - 1, today >>,
      << today - 40, today >>,
      << today - 60, today - 30 >>,
      << today, today - 1 >> }

\* The keys of metric_entries after merge_metric_entries(payload).
Merge(entries, outcome, metrics) ==
    IF outcome = "data" THEN entries \cup Range(metrics) ELSE entries

\* missing_metrics without follower_count, which the loop passes over.
RECURSIVE MissingMetrics(_, _)
MissingMetrics(metrics, entries) ==
    IF metrics = << >> THEN << >>
    ELSE (IF Head(metrics) \in entries \/ Head(metrics) = "follower_count"
          THEN << >> ELSE << Head(metrics) >>)
         \o MissingMetrics(Tail(metrics), entries)

igFrame ==
    << runVars, retryVars, pageVars, batchVars, metricVars, insightVars,
       entityVars, chunkVars,
       pollVars,
       twoVars,
       ownerVars >>

igInputs == << ig_today, ig_since, ig_until, ig_provider >>

IgEntry(mensagem) == Entry("instagram_account_insights", mensagem, "")

\* if effective_since < min_allowed_since: self._log('Ajustando janela
\* ...'), not guarded; effective_since = min_allowed_since
Ig_Clamp ==
    /\ ig_pc = "entry"
    /\ IF ig_since < MinAllowedSince(ig_today)
       THEN \E ok \in WriteOutcomes :
               /\ SyncLogCreate(IgEntry("ajustando"), ok)
               /\ ig_pc' = IF ok THEN "check" ELSE "raised"
               /\ effective_since' = IF ok THEN MinAllowedSince(ig_today)
                                     ELSE ig_since
       ELSE /\ effective_since' = ig_since
            /\ ig_pc' = "check"
            /\ UNCHANGED logVars
    /\ UNCHANGED << igFrame, igInputs, date_windows, ig_window, ig_group,
                    metric_entries, ig_missing, metric_error, ig_requests,
                    ig_result >>

\* if effective_since > effective_until: self._log('Janela ignorada ...'),
\* not guarded; return {'data': []}. Otherwise date_windows is built.
Ig_CheckWindow ==
    /\ ig_pc = "check"
    /\ IF effective_since > ig_until
       THEN \E ok \in WriteOutcomes :
               /\ SyncLogCreate(IgEntry("janela ignorada"), ok)
               /\ ig_pc' = IF ok THEN "returned" ELSE "raised"
               /\ ig_result' = IF ok THEN {} ELSE ig_result
               /\ UNCHANGED << date_windows, ig_window, ig_group >>
       ELSE /\ date_windows' = DayChunks(effective_since, ig_until, 29)
            /\ ig_window' = 1
            /\ ig_group' = 1
            /\ ig_pc' = "grouped"
            /\ UNCHANGED << logVars, ig_result >>
    /\ UNCHANGED << igFrame, igInputs, effective_since, metric_entries,
                    ig_missing, metric_error, ig_requests >>

\* The position after the grouped request (window, group).
AfterGrouped(ok, entries) ==
    /\ ig_pc' = IF ~ok THEN "raised"
                ELSE IF ig_window = Len(date_windows)
                        /\ ig_group = Len(MetricGroups)
                THEN "fallback" ELSE "grouped"
    /\ ig_group' = IF ~ok THEN ig_group
                   ELSE IF ig_group = Len(MetricGroups) THEN 1
                   ELSE ig_group + 1
    /\ ig_window' = IF ~ok THEN ig_window
                    ELSE IF ig_group < Len(MetricGroups) THEN ig_window
                    ELSE IF ig_window = Len(date_windows) THEN 1
                    ELSE ig_window + 1
    /\ ig_missing' = IF ok /\ ig_window = Len(date_windows)
                        /\ ig_group = Len(MetricGroups)
                     THEN MissingMetrics(Metrics, entries)
                     ELSE ig_missing

\* One grouped request of the window loop: the payload is merged, or the
\* MetaClientError is caught and logged (self._log, not guarded).
Ig_Grouped ==
    /\ ig_pc = "grouped"
    /\ ig_requests' =
          Append(ig_requests,
                 IgRequest("grouped", Range(MetricGroups[ig_group].metrics),
                           MetricGroups[ig_group].total_value,
                           date_windows[ig_window]))
    /\ metric_entries' =
          Merge(metric_entries,
                IF ig_group = 1 THEN ig_provider.regular
                ELSE ig_provider.total_value,
                MetricGroups[ig_group].metrics)
    /\ IF (IF ig_group = 1 THEN ig_provider.regular
           ELSE ig_provider.total_value) = "error"
       THEN \E ok \in WriteOutcomes :
               /\ SyncLogCreate(IgEntry("falha na chamada consolidada"), ok)
               /\ AfterGrouped(ok, metric_entries)
       ELSE /\ UNCHANGED logVars
            /\ AfterGrouped(TRUE, metric_entries')
    /\ metric_error' = FALSE
    /\ UNCHANGED << igFrame, igInputs, effective_since, date_windows,
                    ig_result >>

\* No metric is missing (or none is left): the loop over missing_metrics
\* is over.
Ig_FallbackEnd ==
    /\ ig_pc = "fallback"
    /\ ig_missing = << >>
    /\ ig_pc' = "follower"
    /\ UNCHANGED << igFrame, logVars, igInputs, effective_since,
                    date_windows, ig_window, ig_group, metric_entries,
                    ig_missing, metric_error, ig_requests, ig_result >>

\* The position after the request of one missing metric for one window;
\* after the last window an unavailable metric is logged (not guarded).
AfterSingle(ok) ==
    /\ ig_pc' = IF ok THEN "fallback" ELSE "raised"
    /\ ig_window' = IF ~ok THEN ig_window
                    ELSE IF ig_window = Len(date_windows) THEN 1
                    ELSE ig_window + 1
    /\ ig_missing' = IF ok /\ ig_window = Len(date_windows)
                     THEN Tail(ig_missing) ELSE ig_missing

\* One request of the per-metric loop: the payload is merged, or the
\* MetaClientError is kept in metric_error.
Ig_Fallback ==
    /\ ig_pc = "fallback"
    /\ ig_missing # << >>
    /\ ig_requests' =
          Append(ig_requests,
                 IgRequest("single", {Head(ig_missing)},
                           Head(ig_missing) \in Range(MetricsTotalValue),
                           date_windows[ig_window]))
    /\ metric_entries' =
          Merge(metric_entries, ig_provider.single, << Head(ig_missing) >>)
    /\ metric_error' =
          IF ig_window = Len(date_windows) THEN FALSE
          ELSE metric_error \/ ig_provider.single = "error"
    /\ IF /\ ig_window = Len(date_windows)
          /\ Head(ig_missing) \notin metric_entries'
          /\ (metric_error \/ ig_provider.single = "error")
       THEN \E ok \in WriteOutcomes :
               /\ SyncLogCreate(IgEntry("metrica indisponivel"), ok)
               /\ AfterSingle(ok)
       ELSE /\ UNCHANGED logVars
            /\ AfterSingle(TRUE)
    /\ UNCHANGED << igFrame, igInputs, effective_since, date_windows,
                    ig_group, ig_result >>

\* What follows the follower_count request: the payload is merged; a
\* rejection that names the last 30 days is retried when the retry window
\* is not empty; anything else is logged (not guarded).
AfterFollower(answer) ==
    IF answer = {"data"}
    THEN /\ metric_entries' = metric_entries \cup {"follower_count"}
         /\ ig_pc' = "return"
         /\ UNCHANGED logVars
    ELSE /\ UNCHANGED metric_entries
         /\ IF /\ SupportsLast30DaysError(answer)
               /\ RetryWindow(effective_since, ig_today)[1]
                     <= RetryWindow(effective_since, ig_today)[2]
            THEN /\ ig_pc' = "retry"
                 /\ UNCHANGED logVars
            ELSE \E ok \in WriteOutcomes :
                    /\ SyncLogCreate(
                          IgEntry(IF SupportsLast30DaysError(answer)
                                  THEN "retry ignorado"
                                  ELSE "follower_count indisponivel"), ok)
                    /\ ig_pc' = IF ok THEN "return" ELSE "raised"

\* The follower_count request over (follower_since, follower_until), or
\* the log line of a window without valid days (not guarded).
Ig_Follower ==
    /\ ig_pc = "follower"
    /\ IF FollowerWindow(effective_since, ig_until, ig_today)[1]
             <= FollowerWindow(effective_since, ig_until, ig_today)[2]
       THEN /\ ig_requests' =
                  Append(ig_requests,
                         IgRequest("follower", {"follower_count"}, FALSE,
                                   FollowerWindow(effective_since, ig_until,
                                                  ig_today)))
            /\ AfterFollower(ig_provider.follower)
       ELSE /\ UNCHANGED << ig_requests, metric_entries >>
            /\ \E ok \in WriteOutcomes :
                  /\ SyncLogCreate(IgEntry("janela sem dados validos"), ok)
                  /\ ig_pc' = IF ok THEN "return" ELSE "raised"
    /\ UNCHANGED << igFrame, igInputs, effective_since, date_windows,
                    ig_window, ig_group, ig_missing, metric_error,
                    ig_result >>

\* The retry of the follower_count request over (retry_since,
\* retry_until); its success and its failure are both logged (not guarded).
Ig_Retry ==
    /\ ig_pc = "retry"
    /\ ig_requests' =
          Append(ig_requests,
                 IgRequest("follower_retry", {"follower_count"}, FALSE,
                           RetryWindow(effective_since, ig_today)))
    /\ metric_entries' =
          Merge(metric_entries, ig_provider.retry, << "follower_count" >>)
    /\ \E ok \in WriteOutcomes :
          /\ SyncLogCreate(IgEntry(IF ig_provider.retry = "data"
                                   THEN "retry aplicado"
                                   ELSE "follower_count indisponivel"), ok)
          /\ ig_pc' = IF ok THEN "return" ELSE "raised"
    /\ UNCHANGED << igFrame, igInputs, effective_since, date_windows,
                    ig_window, ig_group, ig_missing, metric_error,
                    ig_result >>

\* return {'data': list(metric_entries.values())}
Ig_Return ==
    /\ ig_pc = "return"
    /\ ig_result' = metric_entries
    /\ ig_pc' = "returned"
    /\ UNCHANGED << igFrame, logVars, igInputs, effective_since,
                    date_windows, ig_window, ig_group, metric_entries,
                    ig_missing, metric_error, ig_requests >>

InitIg ==
    /\ OwnerIdle
    /\ TwoIdle
    /\ PollIdle
    /\ RunIdle
    /\ RetryIdle
    /\ PageIdle
    /\ BatchIdle
    /\ MetricIdle
    /\ InsightIdle
    /\ EntityIdle
    /\ ChunkIdle
    /\ log = << >>
    /\ log_failures = MaxLogFailures - 1
    /\ ig_pc = "entry"
    /\ ig_today = DayNumber(2026, 2, 20)
    /\ \E range \in IgRanges(ig_today) :
          /\ ig_since = range[1]
          /\ ig_until = range[2]
    /\ ig_provider \in Providers
    /\ effective_since = ig_since
    /\ date_windows = << >>
    /\ ig_window = 0
    /\ ig_group = 0
    /\ metric_entries = {}
    /\ ig_missing = << >>
    /\ metric_error = FALSE
    /\ ig_requests = << >>
    /\ ig_result = "none"

NextIg ==
    \/ Ig_Clamp
    \/ Ig_CheckWindow
    \/ Ig_Grouped
    \/ Ig_FallbackEnd
    \/ Ig_Fallback
    \/ Ig_Follower
    \/ Ig_Retry
    \/ Ig_Return

SpecIg == InitIg /\ [][NextIg]_vars

\* ---------------------------------------------------------------------
\* meta_sync_logs polled while the run appends its log
\* ---------------------------------------------------------------------
MaxRunLogs == 2

MaxOtherLogs == 1

\* The polled run and a run of someone else writing to the same table.
PolledRun == 1

OtherRun == 2

\* The raw limit query parameter; << >> is an absent or unparsable one.
LimitParams == {<< >>, << 0 >>, << 2 >>, << 5000 >>}

\* limit = max(1, min(int(limit or 200), 1000)), 200 when int() fails.
PollLimit(raw) == Max(1, Min(IF raw = << >> THEN 200 ELSE raw[1], 1000))

\* order_by('id') of a set of rows, as the sequence of their ids.
RECURSIVE OrderById(_)
OrderById(rows) ==
    IF rows = {} THEN << >>
    ELSE << CHOOSE id \in {r.id : r \in rows} :
               \A r \in rows : id <= r.id >>
         \o OrderById({r \in rows :
                          \E other \in rows : other.id < r.id})

\* The filter with id__gte in place of id__gt.
Mut_PollLogsFromCursor(rows, run_id, since_id, limit) ==
    SubSeq(OrderById({r \in rows : /\ r.sync_run = run_id
                                   /\ r.id >= since_id
                                   /\ r.entidade # "sync_owner"}),
           1,
           Min(limit,
               Cardinality({r \in rows : /\ r.sync_run = run_id
                                         /\ r.id >= since_id
                                         /\ r.entidade # "sync_owner"})))

\* SyncLog.objects.filter(sync_run=sync_run, id__gt=since_id)
\*     .exclude(entidade='sync_owner').order_by('id')[:limit], as ids.
PollLogs(rows, run_id, since_id, limit) ==
    SubSeq(OrderById({r \in rows : /\ r.sync_run = run_id
                                   /\ r.id > since_id
                                   /\ r.entidade # "sync_owner"}),
           1,
           Min(limit,
               Cardinality({r \in rows : /\ r.sync_run = run_id
                                         /\ r.id > since_id
                                         /\ r.entidade # "sync_owner"})))

\* next_since_id = logs[-1]['id'] if logs else since_id
NextSinceId(logs, since_id) ==
    IF logs # << >> THEN logs[Len(logs)] ELSE since_id

SyncLogRow(run_id, entidade) ==
    [id |-> sl_next_id, sync_run |-> run_id, entidade |-> entidade]

RowsOf(run_id) == {r \in sl_rows : r.sync_run = run_id}

pollFrame ==
    << runVars, logVars, retryVars, pageVars, batchVars, metricVars,
       insightVars, entityVars, chunkVars, igVars,
       twoVars,
       ownerVars >>

pollClient == << pl_since_id, pl_received, pl_response >>

\* _start_sync: the owner marker and the 'enfileirada' line are created,
\* then the worker thread is started.
Sl_StartSync ==
    /\ sl_status = "none"
    /\ sl_rows' = sl_rows \cup
          {SyncLogRow(PolledRun, "sync_owner"),
           [SyncLogRow(PolledRun, "sync") EXCEPT !.id = sl_next_id + 1]}
    /\ sl_next_id' = sl_next_id + 2
    /\ sl_status' = "pending"
    /\ UNCHANGED << pollFrame, pollClient >>

\* The worker thread of the run appends one log line.
Sl_Log ==
    /\ sl_status \in {"pending", "running"}
    /\ Cardinality(RowsOf(PolledRun)) < 2 + MaxRunLogs
    /\ \E entidade \in {"sync", "ad_accounts"} :
          sl_rows' = sl_rows \cup {SyncLogRow(PolledRun, entidade)}
    /\ sl_next_id' = sl_next_id + 1
    /\ sl_status' = "running"
    /\ UNCHANGED << pollFrame, pollClient >>

\* Another run appends a line of its own to the same table.
Sl_OtherRun ==
    /\ Cardinality(RowsOf(OtherRun)) < MaxOtherLogs
    /\ \E entidade \in {"sync_owner", "sync"} :
          sl_rows' = sl_rows \cup {SyncLogRow(OtherRun, entidade)}
    /\ sl_next_id' = sl_next_id + 1
    /\ UNCHANGED << pollFrame, pollClient, sl_status >>

\* _finish: the run reaches a final status and appends nothing more.
Sl_Finish ==
    /\ sl_status = "running"
    /\ sl_status' \in {"success", "failed"}
    /\ UNCHANGED << pollFrame, pollClient, sl_rows, sl_next_id >>

\* GET meta_sync_logs with since_id = the consumer's cursor; the consumer
\* keeps next_since_id as its new cursor.
Pl_Poll ==
    /\ sl_status # "none"
    /\ \E raw \in LimitParams :
          /\ pl_response' =
                [since_id |-> pl_since_id,
                 limit |-> PollLimit(raw),
                 logs |-> PollLogs(sl_rows, PolledRun, pl_since_id,
                                   PollLimit(raw)),
                 is_finished |-> sl_status \in {"success", "failed"}]
          /\ pl_received' =
                pl_received \o PollLogs(sl_rows, PolledRun, pl_since_id,
                                        PollLimit(raw))
          /\ pl_since_id' =
                NextSinceId(PollLogs(sl_rows, PolledRun, pl_since_id,
                                     PollLimit(raw)), pl_since_id)
    /\ UNCHANGED << pollFrame, sl_rows, sl_next_id, sl_status >>

InitPoll ==
    /\ OwnerIdle
    /\ TwoIdle
    /\ RunIdle
    /\ RetryIdle
    /\ PageIdle
    /\ BatchIdle
    /\ MetricIdle
    /\ InsightIdle
    /\ EntityIdle
    /\ ChunkIdle
    /\ IgIdle
    /\ log = << >>
    /\ log_failures = 0
    /\ sl_rows = {}
    /\ sl_next_id = 1
    /\ sl_status = "none"
    /\ pl_since_id = 0
    /\ pl_received = << >>
    /\ pl_response = << >>

NextPoll ==
    \/ Sl_StartSync
    \/ Sl_Log
    \/ Sl_OtherRun
    \/ Sl_Finish
    \/ Pl_Poll

SpecPoll == InitPoll /\ [][NextPoll]_vars

\* The consumer keeps polling: a poll that has something to deliver is
\* eventually made.
SpecPollLive == SpecPoll /\ WF_vars(Pl_Poll)

\* ---------------------------------------------------------------------
\* Two runs of the same user inside sync_ad_insights at the same time
\* ---------------------------------------------------------------------
\* _start_sync starts a thread per request and refuses none: two runs.
Runs == {1, 2}

\* Both calls use the accumulators of the first one.
Mut_AccumulatorOfFirstRun(run) == 1

\* adset_agg and campaign_agg are locals of the call: each run has its own.
Accumulator(run) == run

twoFrame ==
    << runVars, logVars, retryVars, pageVars, batchVars, metricVars,
       insightVars, entityVars, chunkVars, igVars, pollVars,
       ownerVars >>

twoTables == << tw_ad_insights, tw_adset_insights, tw_campaign_insights >>

\* Run `run` takes a step while another run has begun and not returned.
Overlap(run) ==
    tw_overlap' =
       (tw_overlap \/ \E other \in Runs \ {run} :
                         tw_pos[other] > 0 /\ tw_pc[other] # "returned")

\* The body of the row loop in run `run` for a row of a known ad: the ad
\* row is upserted, then the metric is added to the run's accumulators.
Tw_Upsert(run, ad_ref, created_at, metric) ==
    /\ tw_ad_insights' =
          UpdateOrCreate(tw_ad_insights, ad_ref.ad_pk, created_at, metric)
    /\ tw_adset_agg' =
          [tw_adset_agg EXCEPT ![Accumulator(run)] =
              AggAdd(tw_adset_agg[Accumulator(run)], ad_ref.adset_pk,
                     created_at, metric)]
    /\ tw_campaign_agg' =
          [tw_campaign_agg EXCEPT ![Accumulator(run)] =
              AggAdd(tw_campaign_agg[Accumulator(run)], ad_ref.campaign_pk,
                     created_at, metric)]

\* paginate yields the next insight row to run `run`.
Tw_Row(run) ==
    /\ Overlap(run)
    /\ tw_pc[run] = "fetch"
    /\ tw_pos[run] < Len(tw_source)
    /\ tw_pos' = [tw_pos EXCEPT ![run] = @ + 1]
    /\ IF tw_source[tw_pos[run] + 1].ad_id \in DOMAIN AdCache
       THEN Tw_Upsert(run, AdCache[tw_source[tw_pos[run] + 1].ad_id],
                      tw_source[tw_pos[run] + 1].date_start,
                      NormalizeMetrics(tw_source[tw_pos[run] + 1].row))
       ELSE UNCHANGED << tw_ad_insights, tw_adset_agg, tw_campaign_agg >>
    /\ UNCHANGED << twoFrame, tw_source, tw_pc, tw_done, tw_adset_insights,
                    tw_campaign_insights >>

\* paginate is exhausted for run `run`: the loops over the accumulators
\* follow.
Tw_FetchEnd(run) ==
    /\ Overlap(run)
    /\ tw_pc[run] = "fetch"
    /\ tw_pos[run] = Len(tw_source)
    /\ tw_pc' = [tw_pc EXCEPT ![run] = "adsets"]
    /\ tw_done' = [tw_done EXCEPT ![run] = 0]
    /\ UNCHANGED << twoFrame, twoTables, tw_source, tw_pos, tw_adset_agg,
                    tw_campaign_agg >>

\* One turn of `for (adset_pk, created_at), metric in adset_agg.items()`
\* in run `run`, or the end of that loop.
Tw_AdSetRow(run) ==
    /\ Overlap(run)
    /\ tw_pc[run] = "adsets"
    /\ IF tw_done[run] < Len(tw_adset_agg[Accumulator(run)])
       THEN /\ tw_adset_insights' =
                  UpdateOrCreate(
                     tw_adset_insights,
                     tw_adset_agg[Accumulator(run)][tw_done[run] + 1].entity,
                     tw_adset_agg[Accumulator(run)][tw_done[run] + 1]
                        .created_at,
                     FinalizeAgg(
                        tw_adset_agg[Accumulator(run)][tw_done[run] + 1]
                           .metric))
            /\ tw_done' = [tw_done EXCEPT ![run] = @ + 1]
            /\ UNCHANGED tw_pc
       ELSE /\ tw_pc' = [tw_pc EXCEPT ![run] = "campaigns"]
            /\ tw_done' = [tw_done EXCEPT ![run] = 0]
            /\ UNCHANGED tw_adset_insights
    /\ UNCHANGED << twoFrame, tw_source, tw_pos, tw_adset_agg,
                    tw_campaign_agg, tw_ad_insights, tw_campaign_insights >>

\* One turn of `for (campaign_pk, created_at), metric in
\* campaign_agg.items()` in run `run`, or the return of the call.
Tw_CampaignRow(run) ==
    /\ Overlap(run)
    /\ tw_pc[run] = "campaigns"
    /\ IF tw_done[run] < Len(tw_campaign_agg[Accumulator(run)])
       THEN /\ tw_campaign_insights' =
                  UpdateOrCreate(
                     tw_campaign_insights,
                     tw_campaign_agg[Accumulator(run)][tw_done[run] + 1]
                        .entity,
                     tw_campaign_agg[Accumulator(run)][tw_done[run] + 1]
                        .created_at,
                     FinalizeAgg(
                        tw_campaign_agg[Accumulator(run)][tw_done[run] + 1]
                           .metric))
            /\ tw_done' = [tw_done EXCEPT ![run] = @ + 1]
            /\ UNCHANGED tw_pc
       ELSE /\ tw_pc' = [tw_pc EXCEPT ![run] = "returned"]
            /\ UNCHANGED << tw_done, tw_campaign_insights >>
    /\ UNCHANGED << twoFrame, tw_source, tw_pos, tw_adset_agg,
                    tw_campaign_agg, tw_ad_insights, tw_adset_insights >>

InitTwo ==
    /\ OwnerIdle
    /\ RunIdle
    /\ RetryIdle
    /\ PageIdle
    /\ BatchIdle
    /\ MetricIdle
    /\ InsightIdle
    /\ EntityIdle
    /\ ChunkIdle
    /\ IgIdle
    /\ PollIdle
    /\ log = << >>
    /\ log_failures = 0
    /\ tw_source \in Sources
    /\ tw_pc = [run \in Runs |-> "fetch"]
    /\ tw_pos = [run \in Runs |-> 0]
    /\ tw_adset_agg = [run \in Runs |-> << >>]
    /\ tw_campaign_agg = [run \in Runs |-> << >>]
    /\ tw_done = [run \in Runs |-> 0]
    /\ tw_ad_insights = << >>
    /\ tw_adset_insights = << >>
    /\ tw_campaign_insights = << >>
    /\ tw_overlap = FALSE

NextTwo ==
    \E run \in Runs :
       \/ Tw_Row(run)
       \/ Tw_FetchEnd(run)
       \/ Tw_AdSetRow(run)
       \/ Tw_CampaignRow(run)

SpecTwo == InitTwo /\ [][NextTwo]_vars

\* ---------------------------------------------------------------------
\* sync_ad_accounts, sync_adsets and sync_facebook_pages of a run of U
\* while the store also holds rows of V
\* ---------------------------------------------------------------------
\* self.dashboard_user of the run, and another DashboardUser.
UserU == "user_u"

UserV == "user_v"

\* The rows before the run: each user has an ad account, a campaign under
\* it, an ad set under that campaign, and a page.
InitialAccounts ==
    {[id |-> "act_u", owner |-> UserU, name |-> "old"],
     [id |-> "act_v", owner |-> UserV, name |-> "old"]}

Campaigns ==
    {[id |-> "cmp_u", account |-> "act_u"],
     [id |-> "cmp_v", account |-> "act_v"]}

InitialAdSets ==
    {[id |-> "ads_u", campaign |-> "cmp_u", name |-> "old"],
     [id |-> "ads_v", campaign |-> "cmp_v", name |-> "old"]}

InitialPages ==
    {[id |-> "pg_u", owner |-> UserU, name |-> "old"],
     [id |-> "pg_v", owner |-> UserV, name |-> "old"]}

\* Sequences of at most n items.
UpTo(items, n) == UNION {[1..k -> items] : k \in 0..n}

MaxListed == 2

\* What the provider lists for U: ids U already has, ids stored under V
\* (an account or page both users can reach), new ids, and a missing id.
AccountListings ==
    UpTo({[id |-> id, name |-> "new"] :
             id \in {"", "act_u", "act_v", "act_new"}}, MaxListed)

AdSetListings ==
    UpTo({[id |-> id, campaign_id |-> c, name |-> "new"] :
             id \in {"ads_u", "ads_v", "ads_new"},
             c \in {"cmp_u", "cmp_v", "cmp_x"}}, MaxListed - 1)

PageListings ==
    UpTo({[id |-> id, name |-> "new"] : id \in {"pg_u", "pg_v", "pg_new"}},
         MaxListed - 1)

\* objects.update_or_create(<external id>=id, defaults=...): the row with
\* that external id, whoever owns it, is replaced; else a row is created.
UpsertById(table, id, row) == {r \in table : r.id # id} \cup {row}

\* The DashboardUser an ad set belongs to: through its campaign and the ad
\* account of that campaign.
AdSetOwner(adset, accounts) ==
    {a.owner : a \in {acc \in accounts :
                         \E c \in Campaigns : /\ c.id = adset.campaign
                                              /\ c.account = acc.id}}

ownerFrame ==
    << runVars, logVars, retryVars, pageVars, batchVars, metricVars,
       insightVars, entityVars, chunkVars, igVars, pollVars, twoVars >>

ownerListings == << ow_account_items, ow_adset_items, ow_page_items >>

\* sync_ad_accounts: one item of me/adaccounts.
Ow_AdAccount ==
    /\ ow_pc = "ad_accounts"
    /\ ow_pos < Len(ow_account_items)
    /\ ow_pos' = ow_pos + 1
    /\ ow_accounts' =
          IF ow_account_items[ow_pos + 1].id = "" THEN ow_accounts
          ELSE UpsertById(ow_accounts, ow_account_items[ow_pos + 1].id,
                          [id |-> ow_account_items[ow_pos + 1].id,
                           owner |-> UserU,
                           name |-> ow_account_items[ow_pos + 1].name])
    /\ UNCHANGED << ownerFrame, ownerListings, ow_pc, ow_adsets, ow_pages,
                    ow_campaign_map >>

\* sync_ad_accounts returns; sync_adsets builds campaign_map from the
\* campaigns under the ad accounts of U.
Ow_AdSetsStart ==
    /\ ow_pc = "ad_accounts"
    /\ ow_pos = Len(ow_account_items)
    /\ ow_campaign_map' =
          {c.id : c \in {cmp \in Campaigns :
                            \E a \in ow_accounts : /\ a.id = cmp.account
                                                   /\ a.owner = UserU}}
    /\ ow_pc' = "adsets"
    /\ ow_pos' = 0
    /\ UNCHANGED << ownerFrame, ownerListings, ow_accounts, ow_adsets,
                    ow_pages >>

\* sync_adsets: one item of a batch result.
Ow_AdSet ==
    /\ ow_pc = "adsets"
    /\ ow_pos < Len(ow_adset_items)
    /\ \E a \in ow_accounts : a.owner = UserU
    /\ ow_pos' = ow_pos + 1
    /\ ow_adsets' =
          IF ow_adset_items[ow_pos + 1].campaign_id \in ow_campaign_map
          THEN UpsertById(ow_adsets, ow_adset_items[ow_pos + 1].id,
                          [id |-> ow_adset_items[ow_pos + 1].id,
                           campaign |->
                              ow_adset_items[ow_pos + 1].campaign_id,
                           name |-> ow_adset_items[ow_pos + 1].name])
          ELSE ow_adsets
    /\ UNCHANGED << ownerFrame, ownerListings, ow_pc, ow_accounts, ow_pages,
                    ow_campaign_map >>

\* sync_adsets returns (at once when U has no ad account).
Ow_PagesStart ==
    /\ ow_pc = "adsets"
    /\ \/ ow_pos = Len(ow_adset_items)
       \/ ~ \E a \in ow_accounts : a.owner = UserU
    /\ ow_pc' = "facebook_pages"
    /\ ow_pos' = 0
    /\ UNCHANGED << ownerFrame, ownerListings, ow_accounts, ow_adsets,
                    ow_pages, ow_campaign_map >>

\* sync_facebook_pages: one item of me/accounts.
Ow_Page ==
    /\ ow_pc = "facebook_pages"
    /\ ow_pos < Len(ow_page_items)
    /\ ow_pos' = ow_pos + 1
    /\ ow_pages' =
          UpsertById(ow_pages, ow_page_items[ow_pos + 1].id,
                     [id |-> ow_page_items[ow_pos + 1].id,
                      owner |-> UserU,
                      name |-> ow_page_items[ow_pos + 1].name])
    /\ UNCHANGED << ownerFrame, ownerListings, ow_pc, ow_accounts, ow_adsets,
                    ow_campaign_map >>

\* sync_facebook_pages returns.
Ow_Return ==
    /\ ow_pc = "facebook_pages"
    /\ ow_pos = Len(ow_page_items)
    /\ ow_pc' = "returned"
    /\ UNCHANGED << ownerFrame, ownerListings, ow_pos, ow_accounts,
                    ow_adsets, ow_pages, ow_campaign_map >>

InitOwner ==
    /\ RunIdle
    /\ RetryIdle
    /\ PageIdle
    /\ BatchIdle
    /\ MetricIdle
    /\ InsightIdle
    /\ EntityIdle
    /\ ChunkIdle
    /\ IgIdle
    /\ PollIdle
    /\ TwoIdle
    /\ log = << >>
    /\ log_failures = 0
    /\ ow_pc = "ad_accounts"
    /\ ow_pos = 0
    /\ ow_account_items \in AccountListings
    /\ ow_adset_items \in AdSetListings
    /\ ow_page_items \in PageListings
    /\ ow_accounts = InitialAccounts
    /\ ow_adsets = InitialAdSets
    /\ ow_pages = InitialPages
    /\ ow_campaign_map = {}

NextOwner ==
    \/ Ow_AdAccount
    \/ Ow_AdSetsStart
    \/ Ow_AdSet
    \/ Ow_PagesStart
    \/ Ow_Page
    \/ Ow_Return

SpecOwner == InitOwner /\ [][NextOwner]_vars


\* ======================================================================
\* Properties
\* ======================================================================
IsPrefix(a, b) == Len(a) <= Len(b) /\ \A i \in 1..Len(a) : a[i] = b[i]

Terminal == {SUCCESS, FAILED}

\* The statuses the row has held, from PENDING on.
StatusHistory == << PENDING >> \o status_writes

\* The stage order and the two sides as the specification names them.
SpecStageOrder ==
    << "sync_ad_accounts", "sync_campaigns", "sync_adsets", "sync_ads",
       "sync_ad_insights", "sync_facebook_pages",
       "sync_instagram_accounts_and_insights", "sync_media_and_insights" >>

AdvertisingSide ==
    {"sync_ad_accounts", "sync_campaigns", "sync_adsets", "sync_ads",
     "sync_ad_insights"}

SocialSide ==
    {"sync_facebook_pages", "sync_instagram_accounts_and_insights",
     "sync_media_and_insights"}

SelectedBy(scope, stage) ==
    \/ stage \in AdvertisingSide /\ scope \in {"all", "meta"}
    \/ stage \in SocialSide /\ scope \in {"all", "instagram"}

RequiredStages(scope) ==
    SelectSeq(SpecStageOrder, LAMBDA stage : SelectedBy(scope, stage))

\* C1: once a terminal status (success or failed) has been saved, no later
\* step of run() saves any status: a terminal status is the last status
\* written, it is written at most once, and the row keeps it.
C1_TerminalStatusIsFinal ==
    /\ \A i \in 1..Len(status_writes) :
          status_writes[i] \in Terminal => i = Len(status_writes)
    /\ status = StatusHistory[Len(StatusHistory)]
    /\ finished_at <=> status \in Terminal

\* C1 witness: a stage raised, the except clause of run() saved FAILED after
\* RUNNING, and the worker thread has ended.
C1_Witness ==
    /\ pc = "thread_done"
    /\ exc = "stage"
    /\ status_writes = << RUNNING, FAILED >>

\* C2 (as claimed): every status change follows pending->running,
\* running->success or running->failed.
C2_OnlyThreeArrows ==
    \A i \in 1..(Len(StatusHistory) - 1) :
        << StatusHistory[i], StatusHistory[i + 1] >> \in
            { << PENDING, RUNNING >>, << RUNNING, SUCCESS >>, << RUNNING, FAILED >> }

\* C2 (amended): every status change follows pending->running,
\* running->success, running->failed or pending->failed; running is entered
\* at most once and success is reached only from running.
C2_ArrowsWithPendingFailed ==
    /\ \A i \in 1..(Len(StatusHistory) - 1) :
          << StatusHistory[i], StatusHistory[i + 1] >> \in
              { << PENDING, RUNNING >>, << RUNNING, SUCCESS >>,
                << RUNNING, FAILED >>, << PENDING, FAILED >> }
    /\ Cardinality({i \in 1..Len(status_writes) : status_writes[i] = RUNNING}) <= 1
    /\ status = SUCCESS => RUNNING \in Range(status_writes)

\* C2 witness: a run with an expired credential went from pending to failed.
C2_Witness ==
    /\ pc = "thread_done"
    /\ ~token_valid
    /\ status_writes = << FAILED >>

\* C3 (as claimed): when the worker thread has ended, the run is in a
\* terminal status, whatever failed on the way.
C3_EndsTerminal ==
    pc = "thread_done" => status \in Terminal

\* C4 (as claimed): with a missing or expired credential the run ends logged
\* and failed, never running, with no client, no request and no stage.
C4_InvalidCredentialFails ==
    (user_exists /\ ~token_valid) =>
        /\ RUNNING \notin Range(status_writes)
        /\ ~client
        /\ requests = 0
        /\ started = << >>
        /\ pc = "thread_done" =>
              /\ status = FAILED
              /\ \E e \in Range(log) : e.entidade = "sync"

\* The status a run ends with when no SyncLog write diverts it.
ExpectedFinalStatus ==
    IF /\ user_exists
       /\ token_valid
       /\ sync_scope \in {"all", "meta", "instagram"}
       /\ exc \notin {"stage", "client"}
    THEN SUCCESS
    ELSE FAILED

\* C5 (as claimed): a SyncLog write that raises is swallowed: it never
\* becomes an exception inside run() or leaves run(), and the run ends with
\* the status it would have had.
C5_LogFailureSwallowed ==
    /\ exc # "log"
    /\ ~propagating
    /\ pc = "thread_done" => status = ExpectedFinalStatus

\* C6 (as claimed): when a stage raised, the exception is logged, the run
\* ends failed, the raising stage is the last one started and nothing
\* escapes the worker thread.
C6_StageExceptionFailsRun ==
    exc \in {"stage", "client"} =>
        /\ Len(started) = Len(returned) + 1
        /\ pc \notin {"stage_body", "stage_catch_log", "stage_done_log", "next_stage"}
        /\ pc = "thread_done" =>
              /\ status = FAILED
              /\ Entry("sync", "erro", "") \in Range(log)
              /\ ~propagating

\* C7: the stages start in the fixed order, restricted to those the scope
\* selects; each starts only after the previous one returned, none twice.
C7_StagesInOrder ==
    /\ IsPrefix(started, RequiredStages(sync_scope))
    /\ IsPrefix(returned, started)
    /\ Len(started) <= Len(returned) + 1
    /\ pc \in {"stage_body", "stage_catch_log"} <=> Len(started) = Len(returned) + 1 /\ exc = "none"

\* C7 witness: a run of scope 'all' has started and returned all eight stages.
C7_Witness ==
    /\ sync_scope = "all"
    /\ Len(returned) = 8
    /\ status = SUCCESS

\* C8 (as claimed): the scope decides the stages; an unknown scope sets the
\* run running, then logs and finishes it failed with no stage started.
C8_ScopeDecidesStages ==
    /\ sync_scope = "meta" => Range(started) \cap SocialSide = {}
    /\ sync_scope = "instagram" => Range(started) \cap AdvertisingSide = {}
    /\ sync_scope = "all" =>
          /\ Range(started) \cap SocialSide # {} => AdvertisingSide \subseteq Range(returned)
          /\ status = SUCCESS => Range(returned) = AdvertisingSide \cup SocialSide
    /\ (sync_scope \notin {"all", "meta", "instagram"} /\ user_exists /\ token_valid) =>
          /\ started = << >>
          /\ pc = "thread_done" =>
                /\ status_writes = << RUNNING, FAILED >>
                /\ \E e \in Range(log) : e.entidade = "sync"

\* C9: the status is success only if every stage the scope requires was
\* started and returned, with its start and completion lines and the final
\* completion line in the log before the status was written.
C9_SuccessMeansAllStagesDone ==
    /\ pc = "finish_success" => Entry("sync", "concluida", "") \in Range(log)
    /\ status = SUCCESS =>
          /\ sync_scope \in {"all", "meta", "instagram"}
          /\ started = RequiredStages(sync_scope)
          /\ returned = RequiredStages(sync_scope)
          /\ exc = "none"
          /\ Entry("sync", "concluida", "") \in Range(log)
          /\ \A stage \in Range(RequiredStages(sync_scope)) :
                /\ Entry("stage", "inicio", stage) \in Range(log)
                /\ Entry("stage", "concluido", stage) \in Range(log)

\* C9 witness: an instagram-only run ended in success.
C9_Witness ==
    /\ sync_scope = "instagram"
    /\ status = SUCCESS
    /\ pc = "thread_done"

\* The status codes the specification names as retriable.
SpecRetriableCodes == {408, 429, 500, 502, 503, 504}

IsFailure(r) == r.kind = "exc" \/ (r.kind = "http" /\ r.code \in SpecRetriableCodes)

Is2xx(r) == r.kind = "http" /\ r.code >= 200 /\ r.code <= 299

\* C10: one call makes at most max_retries HTTP attempts; it returns on the
\* first 2xx response, and when every attempt is a transport failure or a
\* retriable status it raises after exactly max_retries attempts and never
\* attempts again.
C10_AtMostMaxRetriesAttempts ==
    /\ http_attempts <= max_retries
    /\ rq_pc = "response" => http_attempts = attempt /\ ~rq_done
    /\ rq_pc = "loop" =>
          /\ http_attempts = attempt - 1
          /\ ~rq_done
          /\ attempt > 1 => IsFailure(response)
    /\ rq_pc = "returned" =>
          /\ rq_result = "payload"
          /\ Is2xx(response)
          /\ http_attempts = attempt
    /\ rq_pc = "raised" =>
          /\ rq_result \in {"network_error", "api_error"}
          /\ ~Is2xx(response)
          /\ http_attempts = attempt
          /\ IsFailure(response) => http_attempts = max_retries
    /\ rq_done <=> rq_pc \in {"returned", "raised"}

\* C10 witness: a client with the default max_retries = 5 raised after five
\* failed attempts, some transport failures and some retriable statuses.
C10_Witness ==
    /\ max_retries = DefaultMaxRetries
    /\ rq_pc = "raised"
    /\ http_attempts = DefaultMaxRetries
    /\ Len(sleeps) = 4
    /\ rq_result = "network_error"

\* The time.sleep calls of the call that are waits before a retry.
BackoffWaits == SelectSeq(sleeps, LAMBDA s : s.kind = "backoff")

\* 2, 4, 8, ...: the wait after failed attempt i, as the specification gives it.
SpecWait(i) == 2 ^ i

\* C11: the wait that follows failed attempt i is exactly 2^i seconds; the
\* waits of a call are 2, 4, 8, ... in order, one between each pair of
\* consecutive attempts, and none after the last attempt.
C11_BackoffIsPowerOfTwo ==
    /\ \A i \in 1..Len(BackoffWaits) : BackoffWaits[i].amount = SpecWait(i)
    /\ rq_pc = "loop" => Len(BackoffWaits) = http_attempts
    /\ rq_pc \in {"response", "returned", "raised"} =>
          Len(BackoffWaits) = http_attempts - 1
    /\ \A i \in 1..Len(sleeps) :
          sleeps[i].kind = "backoff" \/ (i = Len(sleeps) /\ rq_pc = "returned")

\* C11 witness: a call that succeeded on its fourth attempt after waiting
\* 2, 4 and 8 seconds.
C11_Witness ==
    /\ rq_pc = "returned"
    /\ http_attempts = 4
    /\ BackoffWaits = << Sleep("backoff", 2), Sleep("backoff", 4),
                         Sleep("backoff", 8) >>

\* C12: a non-2xx response is retried only when its status is one of 408,
\* 429, 500, 502, 503, 504; any other non-2xx status raises a provider error
\* at once, with no wait after that attempt and no further attempt.
C12_OnlyRetriableStatusRetried ==
    /\ []((rq_pc = "loop" /\ attempt > 1 /\ response.kind = "http") =>
            response.code \in {408, 429, 500, 502, 503, 504})
    /\ []((rq_pc \in {"returned", "raised"} /\ response.kind = "http"
           /\ ~Is2xx(response) /\ response.code \notin SpecRetriableCodes) =>
             /\ rq_pc = "raised"
             /\ rq_result = "api_error"
             /\ http_attempts = attempt
             /\ Len(BackoffWaits) = http_attempts - 1
             /\ Len(sleeps) = Len(BackoffWaits))
    /\ [][(rq_pc = "response" /\ response.kind = "http" /\ ~Is2xx(response)
           /\ response.code \notin SpecRetriableCodes)
          => (rq_pc' = "raised" /\ sleeps' = sleeps
              /\ http_attempts' = http_attempts)]_vars

\* C12 witness: a 404 on the first attempt of a client that allows five
\* raised without any wait.
C12_Witness ==
    /\ rq_pc = "raised"
    /\ response.kind = "http"
    /\ response.code = 404
    /\ max_retries = 5
    /\ http_attempts = 1
    /\ sleeps = << >>

\* The time.sleep calls of the call that are pacing delays.
PauseSleeps == SelectSeq(sleeps, LAMBDA s : s.kind = "pause")

\* A call that returned slept the pacing delay once, as its last sleep; no
\* other call slept it; two 2xx responses of the client have a pacing sleep
\* between them.
PacedOnSuccess ==
    /\ rq_pc = "returned" =>
          /\ Len(PauseSleeps) = 1
          /\ sleeps[Len(sleeps)] = Sleep("pause", request_pause_ms)
    /\ rq_pc # "returned" => Len(PauseSleeps) = 0
    /\ \A i, j \in 1..Len(timeline) :
          (i < j /\ timeline[i] = "ok" /\ timeline[j] = "ok") =>
             \E k \in (i + 1)..(j - 1) : timeline[k] = "pause"
    /\ \A i \in 1..Len(timeline) :
          timeline[i] = "pause" => (i > 1 /\ timeline[i - 1] = "ok")

\* C13 as stated: every call that returns a payload has applied the pacing
\* delay exactly once, after the 2xx response and before returning, a call
\* that fails never, and between two successive successful HTTP calls of a
\* client there is a pacing delay.
C13_PacingOnEverySuccess == PacedOnSuccess

\* C13 amended: the above holds for a client whose request_pause_seconds is
\* positive; a client constructed with request_pause_seconds 0 never sleeps a
\* pacing delay.
C13_PacingWhenPausePositive ==
    /\ request_pause_ms > 0 => PacedOnSuccess
    /\ request_pause_ms = 0 =>
          /\ PauseSleeps = << >>
          /\ \A i \in 1..Len(timeline) : timeline[i] = "ok"

\* C13 witness: two calls in a row returned on a client with the 0.6 s pause,
\* each followed by its pacing sleep, the second after one retry.
C13_Witness ==
    /\ request_pause_ms = 600
    /\ calls = 2
    /\ rq_pc = "returned"
    /\ timeline = << "ok", "pause", "ok", "pause" >>
    /\ sleeps = << Sleep("backoff", 2), Sleep("pause", 600) >>

\* C14: no SyncLog message written by the client contains the access
\* credential, whether the request url is an absolute next-page url carrying
\* access_token or the message embeds the text of a transport error.
C14_NoCredentialInLog ==
    \A i \in 1..Len(log) : ~Contains(log[i].text, AccessToken)

\* The paging envelope of a page as the specification reads it.
CarriesNext(p) == p.is_dict /\ p.paging.is_dict /\ Len(p.paging.next) > 0

CarriesAfter(p) == p.is_dict /\ p.paging.is_dict /\ p.paging.after # ""

\* The records a page holds: its data list, nothing when there is none.
RecordsOf(p) == IF p.is_dict /\ p.data.is_list THEN p.data.rows ELSE << >>

RECURSIVE RecordsOfPages(_)
RecordsOfPages(pages) ==
    IF pages = << >>
    THEN << >>
    ELSE RecordsOfPages(SubSeq(pages, 1, Len(pages) - 1))
         \o RecordsOf(pages[Len(pages)])

\* C15: when a page carries neither a next-page url nor an after cursor,
\* paginate has yielded exactly the records of the pages fetched up to and
\* including it, each once and in page order, requests nothing after it, and
\* stops.
C15_PaginateStopsOnLastPage ==
    /\ \A i \in 1..Len(pg_responses) :
          (~CarriesNext(pg_responses[i]) /\ ~CarriesAfter(pg_responses[i])) =>
             /\ i = Len(pg_responses)
             /\ Len(pg_requests) = i
             /\ pg_pc \in {"fetched", "paging", "finished"}
    /\ pg_pc \in {"paging", "finished"} => yielded = RecordsOfPages(pg_responses)
    /\ pg_pc = "finished" =>
          /\ Len(pg_responses) >= 1
          /\ ~CarriesNext(pg_responses[Len(pg_responses)])
          /\ ~CarriesAfter(pg_responses[Len(pg_responses)])
          /\ Len(pg_requests) = Len(pg_responses)

\* C15 witness: a listing without page limit ended on its third page, the
\* first and third page with two records each, the second with none.
C15_Witness ==
    /\ pg_pc = "finished"
    /\ page_limit = {}
    /\ Len(pg_requests) = 3
    /\ yielded = << << 1, 1 >>, << 1, 2 >>, << 3, 1 >>, << 3, 2 >> >>

\* C16: the first request is the original path with the original params;
\* after a page with a next-page url that url is requested with empty params;
\* otherwise, after a page with an after cursor, the original path is
\* requested with the original params plus after = that cursor; otherwise
\* pagination ends.
C16_NextRequestOrder ==
    /\ Len(pg_requests) >= 1 =>
          pg_requests[1] = [path_or_url |-> << "me/adaccounts" >>,
                            params |-> pg_params]
    /\ \A i \in 1..(Len(pg_requests) - 1) :
          LET p == pg_responses[i]
              r == pg_requests[i + 1]
          IN  IF CarriesNext(p)
              THEN r = [path_or_url |-> p.paging.next, params |-> {}]
              ELSE /\ CarriesAfter(p)
                   /\ r = [path_or_url |-> << "me/adaccounts" >>,
                           params |-> pg_params \cup {<< "after", p.paging.after >>}]
    /\ pg_pc = "finished" =>
          /\ ~CarriesNext(payload)
          /\ ~CarriesAfter(payload)

\* C16 witness: the second page was requested through the next url of the
\* first with empty params, the third through the cursor of the second with
\* the original params plus after.
C16_Witness ==
    /\ Len(pg_requests) = 3
    /\ pg_params = {<< "limit", "1" >>}
    /\ pg_requests[2].params = {}
    /\ pg_requests[2].path_or_url[1] = "https://"
    /\ pg_requests[3] = [path_or_url |-> << "me/adaccounts" >>,
                         params |-> {<< "limit", "1" >>, << "after", "c2" >>}]

\* C17: when request_with_retry fails on page k, paginate raises right after
\* the records of pages 1..k-1 were yielded; it never ends normally after a
\* failed page and requests no later page.
C17_FailurePropagates ==
    /\ Len(pg_requests) <= Len(pg_responses) + 1
    /\ Len(pg_requests) > Len(pg_responses) => pg_pc \in {"request", "raised"}
    /\ pg_pc = "raised" =>
          /\ Len(pg_requests) = page
          /\ Len(pg_responses) = page - 1
          /\ yielded = RecordsOfPages(pg_responses)

\* C17 witness: the request for page 3 failed after pages 1 and 2 had
\* yielded two records each.
C17_Witness ==
    /\ pg_pc = "raised"
    /\ page = 3
    /\ Len(yielded) = 4
    /\ Len(pg_requests) = 3

\* The raw item the provider answered call c with.
AnswerOf(c) == CHOOSE raw \in RawItems : << c, raw >> \in bt_answers

C19_ChunkFailureRaises ==
    /\ Len(bt_posts) <= Len(bt_payloads) + 1
    /\ Len(bt_posts) > Len(bt_payloads) => bt_pc \in {"post", "raised"}
    /\ bt_pc = "raised" =>
          /\ bt_output = << >>
          /\ Len(bt_posts) = Len(bt_payloads) + 1
    /\ (bt_pc # "idle" /\ bt_calls = << >>) =>
          /\ bt_pc = "returned"
          /\ bt_output = << >>
          /\ bt_posts = << >>

\* C19 witness: the second chunk failed after the first had brought two
\* results; nothing was returned.
C19_Witness ==
    /\ bt_pc = "raised"
    /\ Len(bt_posts) = 2
    /\ Len(aggregated_results) = 2
    /\ bt_output = << >>

\* The JSON texts among the raw bodies, with the value each one denotes.
SpecJson ==
    { << "{\"ok\":1}", [kind |-> "dict", v |-> "ok=1"] >>,
      << "{\"error\":\"bad\"}", [kind |-> "dict", v |-> "error=bad"] >>,
      << "null", [kind |-> "None", v |-> ""] >> }

IsValidJson(text) == \E j \in SpecJson : j[1] = text

JsonValue(text) == (CHOOSE j \in SpecJson : j[1] = text)[2]

\* The results normalized so far, each with the raw item it was made from.
NormalizedPairs ==
    { << AnswerOf(c), aggregated_results[c] >> :
         c \in {d \in 1..Len(aggregated_results) :
                   \E raw \in RawItems : << d, raw >> \in bt_answers} }

\* C20 as stated: the normalized body is the JSON-parsed value when the raw
\* body is a string of valid JSON and the raw string itself when it is a
\* string that is not valid JSON; bodyRaw holds the raw body.
C20_BodyParsedOrRawString ==
    \A pair \in NormalizedPairs :
       LET raw == pair[1]
           out == pair[2]
       IN  raw.is_dict =>
              /\ out.body_raw = raw.body
              /\ raw.body.kind = "str" =>
                    out.body = IF IsValidJson(raw.body.v)
                               THEN JsonValue(raw.body.v)
                               ELSE raw.body

\* C20 amended: the normalized body is the JSON-parsed value when the raw
\* body is a string of valid JSON, None when it is a string that is not valid
\* JSON, and the raw body itself when it is not a string; bodyRaw holds the
\* raw body; an item that is not an object gets status 500, body None and its
\* own string form as bodyRaw.
C20_BodyParsedOrNone ==
    \A pair \in NormalizedPairs :
       LET raw == pair[1]
           out == pair[2]
       IN  IF raw.is_dict
           THEN /\ out.body_raw = raw.body
                /\ out.body = IF raw.body.kind = "str"
                              THEN IF IsValidJson(raw.body.v)
                                   THEN JsonValue(raw.body.v)
                                   ELSE [kind |-> "None", v |-> ""]
                              ELSE raw.body
           ELSE /\ out.status_code = 500
                /\ out.body = [kind |-> "None", v |-> ""]
                /\ out.body_raw = [kind |-> "str", v |-> "None"]

\* C20 witness: a chunk answered with a JSON body and with an HTML body was
\* normalized.
C20_Witness ==
    /\ bt_pc = "returned"
    /\ Len(bt_output) = 2
    /\ bt_output[1].body = [kind |-> "dict", v |-> "ok=1"]
    /\ bt_output[1].body_raw = [kind |-> "str", v |-> "{\"ok\":1}"]
    /\ bt_output[2].body = [kind |-> "None", v |-> ""]
    /\ bt_output[2].body_raw = [kind |-> "str", v |-> "<html>Bad Gateway</html>"]

\* ---------------------------------------------------------------------
\* Results extraction and counters (C28..C30), checked under SpecMetrics
\* ---------------------------------------------------------------------

\* The value an item of a values list stands for (0 when it has none).
SpecItemValue(item) ==
    LET p == ExtractMetricValue(item.value)
    IN  IF item.is_dict /\ p.ok THEN p.n ELSE 0

SpecDefaultTagged(item) ==
    item.is_dict /\ ExtractMetricValue(item.value).ok /\ HasDefault(item.windows)

\* The default-window rule on one action-type entry.
SpecEntryTotal(entry) ==
    IF ~entry.is_dict THEN 0
    ELSE IF ~entry.values.is_list THEN ToInt(entry.value)
    ELSE LET items == entry.values.items
             tagged == {i \in 1..Len(items) : SpecDefaultTagged(items[i])}
             counted == IF tagged # {} THEN tagged ELSE 1..Len(items)
         IN  SumOf([i \in 1..Len(items) |-> SpecItemValue(items[i])], counted)

RECURSIVE SpecResultsTotal(_)
SpecResultsTotal(entries) ==
    IF entries = << >> THEN 0
    ELSE SpecEntryTotal(Head(entries)) + SpecResultsTotal(Tail(entries))

\* C28: for a results list, the extracted results are the sum over the
\* entries of the total the default-window rule gives each entry on its own
\* (only the default-tagged values of the entry if it has one, else all its
\* values); the total of a list is the sum of the totals of its one-entry
\* lists, so a default-tagged value of one entry never suppresses another
\* entry's values.
C28_DefaultRulePerEntry ==
    (mx_pc = "done" /\ mx_row.results.kind = "list") =>
        LET entries == mx_row.results.entries
        IN  /\ mx_metric.results = SpecResultsTotal(entries)
            /\ ExtractResultsValue(mx_row.results) = mx_metric.results
            /\ mx_metric.results =
                   SumOf([i \in 1..Len(entries) |->
                             ExtractResultsValue(ResultsList(<< entries[i] >>))],
                         1..Len(entries))

C28_Witness ==
    /\ mx_pc = "done"
    /\ mx_row.results.kind = "list"
    /\ LET entries == mx_row.results.entries
       IN  \E i, j \in 1..Len(entries) :
               /\ i # j
               /\ entries[i].values.is_list
               /\ entries[j].values.is_list
               /\ \E a \in 1..Len(entries[i].values.items) :
                      /\ SpecDefaultTagged(entries[i].values.items[a])
                      /\ SpecItemValue(entries[i].values.items[a]) > 0
               /\ \A b \in 1..Len(entries[j].values.items) :
                      ~SpecDefaultTagged(entries[j].values.items[b])
               /\ SpecEntryTotal(entries[j]) > 0
               /\ mx_metric.results =
                      SpecEntryTotal(entries[i]) + SpecEntryTotal(entries[j])

\* The results list of two entries: a value 7 tagged with the default
\* attribution window, and a value 2 without attribution tag.
TaggedSevenUntaggedTwo ==
    ResultsList(<<
        ResultEntry(Values(<< Item(Bare(JStr(Text7)),
                                   Windows(<< DefaultLabel >>)) >>), JNone),
        ResultEntry(Values(<< Item(Bare(JStr(Text2)), NoWindows) >>), JNone) >>)

\* C29 as stated: the two-entry list with 7 (default-tagged) and 2 (untagged)
\* extracts to 7.
C29_TaggedSevenUntaggedTwoIsSeven ==
    (mx_pc = "done" /\ mx_row.results = TaggedSevenUntaggedTwo) =>
        mx_metric.results = 7

\* C29 amended: the two-entry list with 7 (default-tagged) and 2 (untagged)
\* extracts to 9, each entry being counted on its own.
C29_TaggedSevenUntaggedTwoIsNine ==
    (mx_pc = "done" /\ mx_row.results = TaggedSevenUntaggedTwo) =>
        mx_metric.results = 9

C29_Witness ==
    /\ mx_pc = "done"
    /\ mx_row.results = TaggedSevenUntaggedTwo
    /\ mx_metric.results = 7 + 2

\* C30: the impressions, reach, clicks and results _normalize_metrics
\* produces are never negative.
C30_CountersNonNegative ==
    mx_pc = "done" =>
        /\ mx_metric.impressions >= 0
        /\ mx_metric.reach >= 0
        /\ mx_metric.clicks >= 0
        /\ mx_metric.results >= 0

\* ---------------------------------------------------------------------
\* Insight rollups (C21..C24), checked under SpecInsights
\* ---------------------------------------------------------------------

Counters == {"impressions", "reach", "clicks", "results"}

\* r is the fraction num / den, or zero when den is zero.
SpecIsRatio(r, num, den) ==
    IF den = 0 THEN r.num = 0 ELSE r.num * den = num * r.den

\* The indices of the rows the call processed for a level's entity and date.
ProcessedFor(level, entity, created_at) ==
    {i \in 1..Len(in_processed) :
        /\ in_processed[i].ad_ref[level] = entity
        /\ in_processed[i].created_at = created_at}

RECURSIVE SpecSpend(_)
SpecSpend(S) ==
    IF S = {} THEN [num |-> 0, den |-> 1]
    ELSE LET i == CHOOSE i \in S : TRUE
         IN  DecAdd(in_processed[i].metric.spend, SpecSpend(S \ {i}))

SpecCounter(S, field) ==
    SumOf([i \in 1..Len(in_processed) |-> in_processed[i].metric[field]], S)

\* m holds the sums of the processed rows S and the ratios of those sums.
SpecIsRollup(m, spend, impressions, reach, clicks, results) ==
    /\ m.spend = spend
    /\ m.impressions = impressions
    /\ m.reach = reach
    /\ m.clicks = clicks
    /\ m.results = results
    /\ SpecIsRatio(m.ctr, clicks * 100, impressions)
    /\ SpecIsRatio(m.cpm, spend.num * 1000, spend.den * impressions)
    /\ SpecIsRatio(m.cpc, spend.num, spend.den * clicks)
    /\ SpecIsRatio(m.frequency, impressions, reach)

SpecRollupWritten(table, level) ==
    \A k \in 1..Len(in_processed) :
        /\ HasKey(table, in_processed[k].ad_ref[level],
                  in_processed[k].created_at)
        /\ \A i \in 1..Len(table) :
               (/\ table[i].entity = in_processed[k].ad_ref[level]
                /\ table[i].created_at = in_processed[k].created_at) =>
                   SpecIsRollup(
                       table[i].metric,
                       SpecSpend(ProcessedFor(level, table[i].entity,
                                              table[i].created_at)),
                       SpecCounter(ProcessedFor(level, table[i].entity,
                                                table[i].created_at),
                                   "impressions"),
                       SpecCounter(ProcessedFor(level, table[i].entity,
                                                table[i].created_at),
                                   "reach"),
                       SpecCounter(ProcessedFor(level, table[i].entity,
                                                table[i].created_at),
                                   "clicks"),
                       SpecCounter(ProcessedFor(level, table[i].entity,
                                                table[i].created_at),
                                   "results"))

\* C21: when sync_ad_insights returns, the campaign row (ad-set row) of every
\* campaign (ad set) and date the call processed rows for holds the sums of
\* spend, impressions, reach, clicks and results over those rows, and ctr,
\* cpm, cpc and frequency recomputed from the sums (zero when the denominator
\* is zero).
C21_RollupIsSumAndRecomputedRatios ==
    in_pc = "returned" =>
        /\ SpecRollupWritten(campaign_insights, "campaign_pk")
        /\ SpecRollupWritten(adset_insights, "adset_pk")

\* Two processed rows of one campaign and date with different ctr, whose
\* campaign row holds neither the sum nor the average of the two; and an
\* ad-set row whose denominators are zero.
C21_Witness ==
    /\ in_pc = "returned"
    /\ \E i, j \in 1..Len(in_processed), c \in 1..Len(campaign_insights) :
          /\ i # j
          /\ in_processed[i].ad_ref.campaign_pk = campaign_insights[c].entity
          /\ in_processed[j].ad_ref.campaign_pk = campaign_insights[c].entity
          /\ in_processed[i].created_at = campaign_insights[c].created_at
          /\ in_processed[j].created_at = campaign_insights[c].created_at
          /\ in_processed[i].metric.ctr # in_processed[j].metric.ctr
          /\ campaign_insights[c].metric.ctr #
                 DecAdd(in_processed[i].metric.ctr, in_processed[j].metric.ctr)
          /\ campaign_insights[c].metric.ctr #
                 Dec(DecAdd(in_processed[i].metric.ctr,
                            in_processed[j].metric.ctr).num,
                     2 * DecAdd(in_processed[i].metric.ctr,
                                in_processed[j].metric.ctr).den)
          /\ campaign_insights[c].metric.impressions =
                 in_processed[i].metric.impressions
                 + in_processed[j].metric.impressions
          /\ campaign_insights[c].metric.impressions > 0
    /\ \E a \in 1..Len(adset_insights) :
          /\ adset_insights[a].metric.impressions = 0
          /\ adset_insights[a].metric.ctr.num = 0

\* The stored ad rows of the ads of an entity of a level, for a date.
StoredAdRows(level, entity, created_at) ==
    {i \in 1..Len(ad_insights) :
        /\ ad_insights[i].created_at = created_at
        /\ \E ad \in DOMAIN AdCache :
               /\ AdCache[ad].ad_pk = ad_insights[i].entity
               /\ AdCache[ad][level] = entity}

RECURSIVE StoredSpend(_)
StoredSpend(S) ==
    IF S = {} THEN [num |-> 0, den |-> 1]
    ELSE LET i == CHOOSE i \in S : TRUE
         IN  DecAdd(ad_insights[i].metric.spend, StoredSpend(S \ {i}))

StoredCounter(S, field) ==
    SumOf([i \in 1..Len(ad_insights) |-> ad_insights[i].metric[field]], S)

SpecRollupOfStored(table, level) ==
    \A i \in 1..Len(table) :
        /\ table[i].metric.spend =
               StoredSpend(StoredAdRows(level, table[i].entity,
                                        table[i].created_at))
        /\ \A field \in {"impressions", "reach", "clicks"} :
               table[i].metric[field] =
                   StoredCounter(StoredAdRows(level, table[i].entity,
                                              table[i].created_at), field)

\* C22: whenever no call of sync_ad_insights is in progress, every stored
\* ad-set and campaign daily row has spend, impressions, reach and clicks
\* equal to the sums over the stored ad daily rows of its ads for the date.
C22_RollupEqualsStoredAdRows ==
    in_pc \in {"idle", "returned"} =>
        /\ SpecRollupOfStored(adset_insights, "adset_pk")
        /\ SpecRollupOfStored(campaign_insights, "campaign_pk")

Keys(table) == {<< table[i].entity, table[i].created_at >> : i \in 1..Len(table)}

OneRowPerKey(table) == Cardinality(Keys(table)) = Len(table)

SameRows(table, before) ==
    /\ Keys(table) = Keys(before)
    /\ \A i \in 1..Len(table), j \in 1..Len(before) :
           (/\ table[i].entity = before[j].entity
            /\ table[i].created_at = before[j].created_at) =>
               table[i].metric = before[j].metric

\* The ad row of every processed row holds the values of the last row the
\* call processed for its ad and date.
HoldsLatest ==
    \A k \in 1..Len(in_processed) :
        (\A l \in (k + 1)..Len(in_processed) :
            \/ in_processed[l].ad_ref # in_processed[k].ad_ref
            \/ in_processed[l].created_at # in_processed[k].created_at) =>
            \E i \in 1..Len(ad_insights) :
                /\ ad_insights[i].entity = in_processed[k].ad_ref.ad_pk
                /\ ad_insights[i].created_at = in_processed[k].created_at
                /\ ad_insights[i].metric = in_processed[k].metric

\* C23: when a call returns without a failed listing, right after a call
\* over the same windows and the same provider data that also returned
\* without one, each table has one row per key, the keys it had after the
\* first call, and in each row the values of the latest call, which are
\* those of the first.
C23_SecondRunLeavesSameRows ==
    (/\ in_pc = "returned"
     /\ in_failed = {}
     /\ in_prev.clean
     /\ in_prev.chunks = in_chunks) =>
        /\ OneRowPerKey(ad_insights)
        /\ OneRowPerKey(adset_insights)
        /\ OneRowPerKey(campaign_insights)
        /\ SameRows(ad_insights, in_before[1])
        /\ SameRows(adset_insights, in_before[2])
        /\ SameRows(campaign_insights, in_before[3])
        /\ HoldsLatest

C23_Witness ==
    /\ in_pc = "returned"
    /\ in_failed = {}
    /\ in_prev.clean
    /\ in_prev.chunks = in_chunks
    /\ Len(in_chunks) > 1
    /\ Len(ad_insights) > 1
    /\ Len(adset_insights) > 1
    /\ campaign_insights # << >>
    /\ \E k, l \in 1..Len(in_processed) :
          /\ k # l
          /\ in_processed[k].ad_ref = in_processed[l].ad_ref
          /\ in_processed[k].created_at = in_processed[l].created_at

\* C24: a listing that raised is counted and does not stop the stage: the
\* stage does not raise from its except clause, and when it returns every
\* window of the call was listed, the failures were counted, and the rows of
\* the windows are in the ad table and in the rollup rows.
C24_FailedListingDoesNotStopStage ==
    /\ in_pc # "raised_except"
    /\ (in_pc = "returned" /\ in_failed # {}) =>
           /\ in_fetched = 1..Len(in_chunks)
           /\ insight_errors = Cardinality(in_failed)
           /\ SpecRollupWritten(campaign_insights, "campaign_pk")
           /\ SpecRollupWritten(adset_insights, "adset_pk")

\* ---------------------------------------------------------------- C25
\* A client call of the running stage ended in MetaClientError.
ItemRequestFailed ==
    /\ started # << >>
    /\ Entry("client", "request_failed", started[Len(started)]) \in Range(log)

\* C25 (as claimed): a provider or transport error of one client call inside
\* a stage is caught in the stage: it never becomes the exception the stage
\* raises, and it never makes the run end as failed or leave run().
C25_ItemErrorNeverFailsRun ==
    /\ exc # "client"
    /\ (ItemRequestFailed /\ pc = "thread_done") => status = SUCCESS

\* ---------------------------------------------------------------- C26
\* A batch result that is a success: its status is 2xx.
SpecSuccessful(r) == r.status_code \in 200..299

RECURSIVE SpecCount(_, _)
SpecCount(done, field) ==
    IF done = << >> THEN 0
    ELSE Len(Head(done)[field]) + SpecCount(Tail(done), field)

\* C26: in sync_adsets and sync_ads a returned row is stored only if its
\* parent id is a key of the map read at the start of the stage; a row whose
\* parent is not a key is not stored and is counted as skipped; for every
\* successful batch result the rows upserted plus the rows skipped are the
\* rows returned, and the counters of the stage are the sums over results.
C26_ChildRowsStoredOrSkipped ==
    en_stage \in ChildStages =>
        /\ \A k \in 1..Len(en_done) :
              /\ \A i \in 1..Len(en_done[k].stored) :
                    en_done[k].stored[i].parent \in en_parents
              /\ \A i \in 1..Len(en_done[k].rows) :
                    (SpecSuccessful(en_done[k])
                     /\ en_done[k].rows[i].parent \notin en_parents) =>
                        /\ en_done[k].rows[i] \in Range(en_done[k].skipped)
                        /\ en_done[k].rows[i] \notin Range(en_done[k].stored)
              /\ SpecSuccessful(en_done[k]) =>
                    Len(en_done[k].stored) + Len(en_done[k].skipped)
                        = Len(en_done[k].rows)
        /\ en_pc = "returned" =>
              /\ en_total = SpecCount(en_done, "stored")
              /\ en_skipped = SpecCount(en_done, "skipped")
              /\ \A row \in en_store : row.parent \in en_parents

\* A child stage returned after a successful result of three rows: one
\* stored, one without id and one without a resolvable parent skipped.
C26_Witness ==
    /\ en_stage \in ChildStages
    /\ en_pc = "returned"
    /\ \E k \in 1..Len(en_done) :
          /\ SpecSuccessful(en_done[k])
          /\ Len(en_done[k].rows) = 3
          /\ Len(en_done[k].stored) = 1
          /\ \E i \in 1..Len(en_done[k].skipped) :
                en_done[k].skipped[i].id = ""
          /\ \E i \in 1..Len(en_done[k].skipped) :
                /\ en_done[k].skipped[i].id # ""
                /\ en_done[k].skipped[i].parent \notin en_parents

\* ---------------------------------------------------------------- C27
\* C27 (as claimed): every batch result whose status is not 2xx (a missing
\* code included) is counted as an error and logged, nothing of it is
\* stored, and the stage goes on: it does not raise from the error branch
\* and, when it returns, every call handed to the provider was handled.
C27_NonSuccessCountedNotStored ==
    /\ \A k \in 1..Len(en_done) :
          ~SpecSuccessful(en_done[k]) =>
              /\ en_done[k].counted
              /\ en_done[k].logged
              /\ en_done[k].stored = << >>
    /\ en_pc = "returned" => Len(en_done) = en_issued

\* ---------------------------------------------------------------- C33
RECURSIVE Flat(_)
Flat(rounds) ==
    IF rounds = << >> THEN << >> ELSE Head(rounds) \o Flat(Tail(rounds))

\* The results handed to the loop body so far, the current one included.
AllHandled ==
    Range(en_done) \cup (IF en_pc \in {"rows", "error_log"} THEN {en_cur} ELSE {})

Enqueued == {en_enq[e].request : e \in 1..Len(en_enq)}

FollowUp(r) == RequestMeta(r.account, r.page + 1)

\* The requests dispatched in the rounds after round k.
DispatchedAfter(k) == Range(Flat(SubSeq(en_rounds, k + 1, Len(en_rounds))))

\* The requests dispatched before request q, in the order of dispatch.
DispatchedBefore(q) ==
    {Flat(en_rounds)[i] : i \in {i \in 1..Len(Flat(en_rounds)) :
        \A j \in 1..i : Flat(en_rounds)[j] # q}}

\* C33: every round hands between one and batch_size calls to one batch; the
\* follow-up of a successful result with a next page is appended to the
\* queue and dispatched in a later round, after every request that was
\* pending when it was appended; the follow-up of a result with status >=
\* 400 is never appended; when the helper is exhausted the queue is empty
\* and exactly the first requests and the appended ones were dispatched.
C33_RoundsAndRequeue ==
    /\ \A k \in 1..Len(en_rounds) :
          Len(en_rounds[k]) \in 1..en_batch_size
    /\ \A r \in AllHandled :
          /\ (SpecSuccessful(r) /\ r.next) => FollowUp(r) \in Enqueued
          /\ r.status_code >= 400 => FollowUp(r) \notin Enqueued
    /\ \A e \in 1..Len(en_enq) :
          /\ en_enq[e].request \in Range(en_pending)
                \/ en_enq[e].request \in DispatchedAfter(en_enq[e].round)
          /\ en_enq[e].request \notin
                Range(Flat(SubSeq(en_rounds, 1, en_enq[e].round)))
          /\ en_enq[e].request \in Range(Flat(en_rounds)) =>
                Range(en_enq[e].queue) \subseteq
                    DispatchedBefore(en_enq[e].request)
    /\ en_pc = "returned" =>
          /\ en_pending = << >>
          /\ Range(Flat(en_rounds))
                = Range(BatchRequests(en_accounts)) \cup Enqueued
          /\ Len(Flat(en_rounds)) = Len(en_accounts) + Len(en_enq)

\* The helper was exhausted with rounds of one call: a follow-up request
\* was appended behind a pending request, and a result with status >= 400
\* carrying a next page was handled.
C33_Witness ==
    /\ en_pc = "returned"
    /\ en_batch_size = 1
    /\ \E e \in 1..Len(en_enq) : en_enq[e].queue # << >>
    /\ \E r \in Range(en_done) : r.status_code >= 400 /\ r.next
    /\ Len(en_rounds) > 2

\* ---------------------------------------------------------------- C34
\* C34 (as claimed): every result handed to the loop body is the provider's
\* answer to the request it is paired with, and once a round is over every
\* call dispatched so far has yielded exactly one pair, whatever array the
\* batch endpoint returned.
C34_ResultsAttributedToTheirCall ==
    /\ \A r \in AllHandled : r.answer_to = RequestMeta(r.account, r.page)
    /\ en_pc \in {"pending", "returned"} => Len(en_done) = en_issued

\* ---------------------------------------------------------------- C35
\* The window from a to b ends before the day of the month of a, three
\* months later.
SpecWithinThreeMonths(a, b) ==
    \/ (b.year * 12 + b.month) - (a.year * 12 + a.month) < 3
    \/ /\ (b.year * 12 + b.month) - (a.year * 12 + a.month) = 3
       /\ b.day < a.day

\* C35: for since <= until the windows of _iter_month_chunks(since, until,
\* 3) partition [since, until]: the first starts at since, each next one
\* starts the day after the previous one ends, the last ends at until, none
\* is empty and none spans more than three calendar months; for since >
\* until there is no window; 2026-01-01..2026-09-15 gives the three windows
\* ending 2026-03-31, 2026-06-30 and 2026-09-15.
C35_MonthChunksPartition ==
    ch_pc = "done" =>
        /\ ch_since > ch_until => ch_chunks = << >>
        /\ ch_since <= ch_until =>
              /\ ch_chunks # << >>
              /\ ch_chunks[1][1] = ch_since
              /\ ch_chunks[Len(ch_chunks)][2] = ch_until
              /\ \A i \in 1..Len(ch_chunks) :
                    /\ ch_chunks[i][1] <= ch_chunks[i][2]
                    /\ SpecWithinThreeMonths(Civil(ch_chunks[i][1]),
                                             Civil(ch_chunks[i][2]))
              /\ \A i \in 1..(Len(ch_chunks) - 1) :
                    ch_chunks[i + 1][1] = ch_chunks[i][2] + 1
        /\ (ch_since = DayNumber(2026, 1, 1)
            /\ ch_until = DayNumber(2026, 9, 15)) =>
              ch_chunks =
                 << << DayNumber(2026, 1, 1), DayNumber(2026, 3, 31) >>,
                    << DayNumber(2026, 4, 1), DayNumber(2026, 6, 30) >>,
                    << DayNumber(2026, 7, 1), DayNumber(2026, 9, 15) >> >>

\* Three windows from the last day of November: the second starts on the
\* last day of February, where the day of the month was clamped.
C35_Witness ==
    /\ ch_pc = "done"
    /\ Len(ch_chunks) = 3
    /\ Civil(ch_since).month = 11
    /\ Civil(ch_since).day = 30
    /\ Civil(ch_chunks[2][1]).month = 2
    /\ Civil(ch_chunks[2][1]).day < 30

\* ---------------------------------------------------------------------
\* Account insight requests (SpecIg)
\* ---------------------------------------------------------------------
IsGrouped(request) == request.kind = "grouped"

IsFollower(request) == request.kind = "follower"

IsFollowerRetry(request) == request.kind = "follower_retry"

\* since raised to today - 24 months + 2 days.
ClampedSince == Max(ig_since, MinAllowedSince(ig_today))

\* The function is past its grouped loop.
PastGrouped ==
    \/ ig_pc \in {"fallback", "follower", "retry", "return"}
    \/ ig_pc = "returned" /\ date_windows # << >>

\* C36: since is raised to max(since, today - 24 months + 2 days); when the
\* clamped window is empty the function returns an empty data set without
\* issuing any request; otherwise the first request starts exactly at the
\* clamped since.
C36_ClampedOrSkipped ==
    /\ ClampedSince > ig_until =>
          /\ ig_requests = << >>
          /\ ig_pc # "raised"
          /\ ig_pc = "returned" => ig_result = {}
    /\ ClampedSince <= ig_until =>
          /\ ig_requests # << >> => ig_requests[1].since = ClampedSince
          /\ ig_pc = "returned" => ig_requests # << >>

\* The same statement without the outcome of the call: no request for an
\* empty clamped window, an empty data set when the call returns, and a
\* first request that starts at the clamped since.
C36_RequestsOfClampedWindow ==
    /\ ClampedSince > ig_until =>
          /\ ig_requests = << >>
          /\ ig_pc = "returned" => ig_result = {}
    /\ ClampedSince <= ig_until =>
          /\ ig_requests # << >> => ig_requests[1].since = ClampedSince
          /\ ig_pc = "returned" => ig_requests # << >>

\* C37: every insight request (grouped, per metric, follower count and its
\* retry) has until - since <= 29 days; the chunks of the grouped requests
\* are consecutive, do not overlap and cover the clamped window exactly,
\* with two grouped requests (regular and total value) per chunk.
C37_SpansAndChunks ==
    /\ \A i \in DOMAIN ig_requests :
          ig_requests[i].until - ig_requests[i].since \in 0..29
    /\ date_windows # << >> =>
          /\ date_windows[1][1] = ClampedSince
          /\ date_windows[Len(date_windows)][2] = ig_until
          /\ \A i \in DOMAIN date_windows :
                /\ date_windows[i][1] <= date_windows[i][2]
                /\ i > 1 => date_windows[i][1] = date_windows[i - 1][2] + 1
    /\ Len(SelectSeq(ig_requests, IsGrouped)) <= 2 * Len(date_windows)
    /\ PastGrouped =>
          Len(SelectSeq(ig_requests, IsGrouped)) = 2 * Len(date_windows)
    /\ \A k \in DOMAIN SelectSeq(ig_requests, IsGrouped) :
          /\ ig_requests[k].kind = "grouped"
          /\ ig_requests[k].since = date_windows[(k + 1) \div 2][1]
          /\ ig_requests[k].until = date_windows[(k + 1) \div 2][2]
          /\ ig_requests[k].total_value = (k % 2 = 0)
          /\ ig_requests[k].metrics =
                IF k % 2 = 0 THEN Range(MetricsTotalValue)
                ELSE Range(MetricsRegular)

\* A call over more than one chunk has returned after per-metric requests
\* and a retried follower count request.
C37_Witness ==
    /\ ig_pc = "returned"
    /\ Len(date_windows) >= 2
    /\ \E i \in DOMAIN ig_requests : ig_requests[i].kind = "single"
    /\ \E i \in DOMAIN ig_requests : ig_requests[i].kind = "follower_retry"

C39_FollowerRetry ==
    /\ Len(SelectSeq(ig_requests, IsFollowerRetry)) <= 1
    /\ SelectSeq(ig_requests, IsFollowerRetry) # << >> =>
          /\ SelectSeq(ig_requests, IsFollower) # << >>
          /\ SupportsLast30DaysError(ig_provider.follower)
          /\ SelectSeq(ig_requests, IsFollowerRetry)[1].until =
                SelectSeq(ig_requests, IsFollower)[1].until - 2
          /\ SelectSeq(ig_requests, IsFollowerRetry)[1].since =
                SelectSeq(ig_requests, IsFollowerRetry)[1].until - 7
    /\ /\ SelectSeq(ig_requests, IsFollower) # << >>
       /\ SupportsLast30DaysError(ig_provider.follower)
       /\ ig_pc \in {"return", "returned"}
       => Len(SelectSeq(ig_requests, IsFollowerRetry)) = 1
    /\ /\ SelectSeq(ig_requests, IsFollower) # << >>
       /\ ig_provider.follower # {"data"}
       => /\ ig_pc # "raised"
          /\ ig_pc = "returned" => ig_result = metric_entries

\* What the retry does: it is issued at most once, only after the rejection
\* that names follower_count and the last 30 days, and only over a window
\* that is not empty, which is (max(effective_since, today - 9 days),
\* today - 2 days).
C39_RetryWindowOfTheCode ==
    /\ Len(SelectSeq(ig_requests, IsFollowerRetry)) <= 1
    /\ SelectSeq(ig_requests, IsFollowerRetry) # << >> =>
          /\ SupportsLast30DaysError(ig_provider.follower)
          /\ SelectSeq(ig_requests, IsFollowerRetry)[1].until = ig_today - 2
          /\ SelectSeq(ig_requests, IsFollowerRetry)[1].since =
                Max(ClampedSince, ig_today - 9)

\* ---------------------------------------------------------------------
\* Log polling (SpecPoll, SpecPollLive)
\* ---------------------------------------------------------------------
\* The ids of the log entries of the polled run, the owner marker apart.
RunLogIds ==
    {r.id : r \in {row \in sl_rows : /\ row.sync_run = PolledRun
                                     /\ row.entidade # "sync_owner"}}

\* What the consumer holds is, in ascending id order and without
\* repetition, every entry of the run up to its cursor; the last response
\* has at most limit entries, all with an id above the cursor it was asked
\* with.
PollDeliversInOrder ==
    /\ \A i \in DOMAIN pl_received :
          i > 1 => pl_received[i - 1] < pl_received[i]
    /\ Range(pl_received) = {id \in RunLogIds : id <= pl_since_id}
    /\ pl_response # << >> =>
          /\ Len(pl_response.logs) <= pl_response.limit
          /\ pl_response.limit \in 1..1000
          /\ \A i \in DOMAIN pl_response.logs :
                pl_response.logs[i] > pl_response.since_id

\* C31: a consumer that polls with next_since_id as its cursor receives
\* every log entry of the run, the owner marker apart, exactly once and in
\* ascending id order while the run keeps appending; each poll returns at
\* most limit entries, all with an id greater than the cursor. What the
\* consumer holds only grows, so it receives every entry if, again and
\* again, it holds all the entries appended so far.
C31_EveryEntryOnceInOrder ==
    /\ []PollDeliversInOrder
    /\ []<>(Range(pl_received) = RunLogIds)

\* The consumer has received the whole log of a finished run over several
\* polls, one of them cut short by its limit, while another run was
\* writing to the same table.
C31_Witness ==
    /\ sl_status \in {"success", "failed"}
    /\ Cardinality(RunLogIds) = 1 + MaxRunLogs
    /\ Range(pl_received) = RunLogIds
    /\ RowsOf(OtherRun) # {}
    /\ pl_response # << >>
    /\ Len(pl_response.logs) = pl_response.limit
    /\ pl_response.since_id > 0

\* ---------------------------------------------------------------------
\* Two interleaved runs (SpecTwo)
\* ---------------------------------------------------------------------
\* What one call alone holds after the first n rows of the listing.
AloneStep(agg, row, level) ==
    IF row.ad_id \in DOMAIN AdCache
    THEN AggAdd(agg,
                IF level = "adset" THEN AdCache[row.ad_id].adset_pk
                ELSE AdCache[row.ad_id].campaign_pk,
                row.date_start, NormalizeMetrics(row.row))
    ELSE agg

RECURSIVE AloneAgg(_, _, _)
AloneAgg(rows, n, level) ==
    IF n = 0 THEN << >>
    ELSE AloneStep(AloneAgg(rows, n - 1, level), rows[n], level)

RECURSIVE AloneAds(_, _)
AloneAds(rows, n) ==
    IF n = 0 THEN << >>
    ELSE IF rows[n].ad_id \in DOMAIN AdCache
    THEN UpdateOrCreate(AloneAds(rows, n - 1),
                        AdCache[rows[n].ad_id].ad_pk, rows[n].date_start,
                        NormalizeMetrics(rows[n].row))
    ELSE AloneAds(rows, n - 1)

\* C32: when two runs of the same user execute with their steps
\* interleaved in any way over the same source data, neither reads or
\* writes the accumulators of the other (each run's accumulators are at
\* every moment what the rows it has consumed itself add up to), and after
\* both have finished the store holds exactly one row per natural key, with
\* the values a single run would have written.
C32_InterleavedRunsAsOne ==
    /\ \A run \in Runs :
          /\ tw_adset_agg[run] = AloneAgg(tw_source, tw_pos[run], "adset")
          /\ tw_campaign_agg[run] =
                AloneAgg(tw_source, tw_pos[run], "campaign")
    /\ OneRowPerKey(tw_ad_insights)
    /\ OneRowPerKey(tw_adset_insights)
    /\ OneRowPerKey(tw_campaign_insights)
    /\ (\A run \in Runs : tw_pc[run] = "returned") =>
          /\ Range(tw_ad_insights) =
                Range(AloneAds(tw_source, Len(tw_source)))
          /\ Range(tw_adset_insights) =
                Range(UpsertAll(<< >>, AloneAgg(tw_source, Len(tw_source),
                                                "adset")))
          /\ Range(tw_campaign_insights) =
                Range(UpsertAll(<< >>, AloneAgg(tw_source, Len(tw_source),
                                                "campaign")))

\* Both runs have returned after overlapping, over a listing with two rows
\* for the same ad and date and rows of two ad sets of one campaign.
C32_Witness ==
    /\ \A run \in Runs : tw_pc[run] = "returned"
    /\ tw_overlap
    /\ Len(tw_source) = 4
    /\ Len(tw_ad_insights) = 3
    /\ Len(tw_adset_insights) = 3
    /\ Len(tw_campaign_insights) = 2

\* ---------------------------------------------------------------------
\* Rows of another user (SpecOwner)
\* ---------------------------------------------------------------------
\* C40: a run for user U changes only rows owned by U: the rows owned by
\* another user V before the run are unchanged and still owned by V after
\* it, also when the provider returns to U an external id that already
\* exists under V.
C40_RowsOfOthersUntouched ==
    /\ \A r \in InitialAccounts : r.owner = UserV => r \in ow_accounts
    /\ \A r \in InitialPages : r.owner = UserV => r \in ow_pages
    /\ \A r \in InitialAdSets :
          AdSetOwner(r, InitialAccounts) = {UserV} =>
             /\ r \in ow_adsets
             /\ AdSetOwner(r, ow_accounts) = {UserV}

\* What holds instead: the rows of V stay as they were as long as the
\* provider lists none of their external ids, nor the id of the ad account
\* above them, for U.
C40_UnlistedRowsUntouched ==
    /\ \A r \in InitialAccounts :
          (/\ r.owner = UserV
           /\ \A i \in DOMAIN ow_account_items :
                 ow_account_items[i].id # r.id) => r \in ow_accounts
    /\ \A r \in InitialPages :
          (/\ r.owner = UserV
           /\ \A i \in DOMAIN ow_page_items : ow_page_items[i].id # r.id)
          => r \in ow_pages
    /\ \A r \in InitialAdSets :
          (/\ AdSetOwner(r, InitialAccounts) = {UserV}
           /\ \A i \in DOMAIN ow_adset_items : ow_adset_items[i].id # r.id
           /\ \A i \in DOMAIN ow_account_items :
                 ow_account_items[i].id # "act_v")
          => /\ r \in ow_adsets
             /\ AdSetOwner(r, ow_accounts) = {UserV}

====
